---- MODULE Spec2Model ----
(***************************************************************************)
(* Model of the LULC planning dashboard (function App of the React         *)
(* component).  The component keeps two loaded tables and a set of         *)
(* parameters as React state; every render recomputes all derived          *)
(* structures in the body of App from that state.                          *)
(*                                                                         *)
(* Number representation.  Areas are integers in tenths of a sq km,        *)
(* confidences integers in hundredths, years natural numbers.  A value     *)
(* produced by a division is an exact rational <<n, d>> with d > 0 in      *)
(* lowest terms; toFixed(k) is rounding of the exact value, half away      *)
(* from zero.  IEEE-754 rounding noise is not modelled; the input sets     *)
(* below were chosen so that the exact result and the double-precision     *)
(* result select the same branch of every comparison.                      *)
(***************************************************************************)
EXTENDS Integers, Sequences, FiniteSets, TLC

VARIABLES
    data,                    \* useState([])  transition table (CSV rows)
    timeData,                \* useState([])  time-series table (CSV rows)
    activePersona,           \* useState('policy_maker')
    activeScenario,          \* useState('all')
    activeTab,               \* useState('dashboard')
    minConfidence,           \* useState(0), in hundredths
    policyIntensity,         \* useState(0), 0..100
    budget,                  \* useState(5000)
    showLogic,               \* useState(false)
    rankMode,                \* useState('impact')
    reportOpen,              \* useState(false)
    temporalTransitionData,  \* the multi-year transition dataset
    dataLoading,             \* Papa.parse of transition_data.csv in flight
    timeLoading,             \* Papa.parse of lulc_timeseries.csv in flight
    mounted,                 \* App has rendered at least once
    out                      \* the derived structures of the last render

vars == <<data, timeData, activePersona, activeScenario, activeTab,
          minConfidence, policyIntensity, budget, showLogic, rankMode,
          reportOpen, temporalTransitionData, dataLoading, timeLoading,
          mounted, out>>

(***************************************************************************)
(* Bounds of the input sets.                                               *)
(***************************************************************************)
MaxRecs == 3      \* longest record list handed to analyzeTransitionEvolution
MaxGroups == 3    \* most (from,to) groups in a survey input
MaxYears == 4     \* most distinct years in a time-series input
MaxRows == 3      \* most rows of a generated transition table

\* A value that may be null is a sequence of at most one element: Null, or
\* Some(v) whose value is Some(v)[1].
Null == <<>>
Some(v) == <<v>>

(***************************************************************************)
(* Exact rational arithmetic.                                              *)
(***************************************************************************)
Abs(x) == IF x < 0 THEN -x ELSE x

RECURSIVE Gcd(_, _)
Gcd(a, b) == IF b = 0 THEN a ELSE Gcd(b, a % b)

\* n / d, sign carried by the numerator, lowest terms.  A division by zero
\* gives <<1, 0>> (Infinity), <<-1, 0>> (-Infinity) or <<0, 0>> (NaN, 0 / 0).
Rat(n, d) ==
    LET g == Gcd(Abs(n), Abs(d))
        s == IF d < 0 THEN -1 ELSE 1
    IN IF g = 0 THEN <<0, 0>> ELSE <<(s * n) \div g, (s * d) \div g>>

RInt(n) == <<n, 1>>
\* Infinity + Infinity is Infinity; Infinity - Infinity is NaN
RAdd(a, b) ==
    IF a[2] = 0 /\ b[2] = 0 THEN (IF a = b THEN a ELSE <<0, 0>>)
    ELSE Rat(a[1] * b[2] + b[1] * a[2], a[2] * b[2])
RSub(a, b) == RAdd(a, <<-b[1], b[2]>>)
RMul(a, b) == Rat(a[1] * b[1], a[2] * b[2])
RDiv(a, b) == Rat(a[1] * b[2], a[2] * b[1])
\* every comparison with NaN is false
RLt(a, b) ==
    IF a[2] = 0 /\ b[2] = 0 THEN a[1] < 0 /\ b[1] > 0
    ELSE a[1] * b[2] < b[1] * a[2]
RGt(a, b) == RLt(b, a)

\* Number.prototype.toFixed: the integer nearest to n/d, ties away from zero
RoundDiv(n, d) ==
    IF n >= 0 THEN (2 * n + d) \div (2 * d)
              ELSE -((2 * (-n) + d) \div (2 * d))

\* toFixed of Infinity, -Infinity and NaN gives the texts "Infinity",
\* "-Infinity" and "NaN": three integers beyond every finite output
ToFixedNonFinite(r) ==
    IF r[1] > 0 THEN 1000000000 ELSE IF r[1] < 0 THEN -1000000000 ELSE 999999999

NonFiniteTexts ==
    {ToFixedNonFinite(<<1, 0>>), ToFixedNonFinite(<<-1, 0>>), ToFixedNonFinite(<<0, 0>>)}

\* (r * scale).toFixed(0) for a rational r
RRound(r, scale) ==
    IF r[2] = 0 THEN ToFixedNonFinite(r) ELSE RoundDiv(r[1] * scale, r[2])

(***************************************************************************)
(* Array helpers.                                                          *)
(***************************************************************************)
Range(s) == {s[i] : i \in 1..Len(s)}

\* the sequence f as an explicit tuple (same value; evaluated once)
Eager(f) == f \o <<>>

RECURSIVE SumSeq(_)
SumSeq(s) ==
    LET sv == Eager(s)
    IN IF sv = <<>> THEN 0 ELSE Head(sv) + SumSeq(Tail(sv))

MaxOf(S) == CHOOSE x \in S : \A y \in S : y <= x
MinOf(S) == CHOOSE x \in S : \A y \in S : x <= y

\* Array.prototype.filter
RECURSIVE FilterSeq(_, _)
FilterSeq(s, keep) ==
    LET sv == Eager(s)
        kv == Eager(keep)
    IN IF sv = <<>> THEN <<>>
       ELSE IF kv[1] THEN <<Head(sv)>> \o FilterSeq(Tail(sv), Tail(kv))
            ELSE FilterSeq(Tail(sv), Tail(kv))

\* Array.prototype.slice(begin, end) with 0-based arguments; a negative
\* argument counts from the end of the array
SliceIdx(k, n) == IF k < 0 THEN (IF n + k < 0 THEN 0 ELSE n + k)
                  ELSE (IF k > n THEN n ELSE k)

Slice(s, begin, end) ==
    LET b == SliceIdx(begin, Len(s))
        e == SliceIdx(end, Len(s))
    IN IF b >= e THEN <<>> ELSE SubSeq(s, b + 1, e)

SliceFrom(s, begin) == Slice(s, begin, Len(s))

\* Array.prototype.sort with the comparator (a,b) => key(b) - key(a), where
\* key is the sequence of the elements' numeric keys: descending by key,
\* elements of equal key keep their order (the sort is stable).
SortDesc_Ascending(s, key) ==
    LET sv == Eager(s)
        kv == Eager(key)
        n == Len(sv)
        Rank(i) == Cardinality({j \in 1..n :
                       kv[j] < kv[i] \/ (kv[j] = kv[i] /\ j < i)})
    IN Eager([p \in 1..n |-> sv[CHOOSE i \in 1..n : Rank(i) = p - 1]])

SortDesc(s, key) ==
    LET sv == Eager(s)
        kv == Eager(key)
        n == Len(sv)
        Rank(i) == Cardinality({j \in 1..n :
                       kv[j] > kv[i] \/ (kv[j] = kv[i] /\ j < i)})
    IN Eager([p \in 1..n |-> sv[CHOOSE i \in 1..n : Rank(i) = p - 1]])

\* the same with the comparator (a,b) => key(a) - key(b): ascending, stable
SortAsc(s, key) ==
    LET sv == Eager(s)
        kv == Eager(key)
        n == Len(sv)
        Rank(i) == Cardinality({j \in 1..n :
                       kv[j] < kv[i] \/ (kv[j] = kv[i] /\ j < i)})
    IN Eager([p \in 1..n |-> sv[CHOOSE i \in 1..n : Rank(i) = p - 1]])

(***************************************************************************)
(* Strings of decimal digits.  PapaParse (header: true, no dynamicTyping)  *)
(* delivers every field as a string; a year is modelled by the natural     *)
(* number its digits spell, and compared as a string where the code        *)
(* compares strings.                                                       *)
(***************************************************************************)
RECURSIVE Digits(_)
Digits(n) == IF n < 10 THEN <<n>> ELSE Append(Digits(n \div 10), n % 10)

\* s < t in the code-unit order of Array.prototype.sort() without comparator
StrLess(a, b) ==
    LET s == Digits(a)
        t == Digits(b)
        m == IF Len(s) < Len(t) THEN Len(s) ELSE Len(t)
    IN \/ \E i \in 1..m : /\ \A j \in 1..(i - 1) : s[j] = t[j]
                          /\ s[i] < t[i]
       \/ /\ Len(s) < Len(t)
          /\ \A j \in 1..m : s[j] = t[j]

\* string + number: the decimal digits of k appended to the string
StrPlus(a, k) == a * 10 + k

(***************************************************************************)
(* TIME SERIES PROCESSING                                                  *)
(* The functions of App close over the component's state; here the state   *)
(* they read is passed as arguments (td = timeData, ys = years,            *)
(* pi = policyIntensity, persona = activePersona, ...).                    *)
(***************************************************************************)
\* [...new Set(timeData.map(d => d.year))].sort()
RECURSIVE SortStrings(_)
SortStrings(Y) ==
    IF Y = {} THEN <<>>
    ELSE LET first == CHOOSE y \in Y : \A z \in Y : ~StrLess(z, y)
         IN <<first>> \o SortStrings(Y \ {first})

years(td) == SortStrings({td[k].year : k \in 1..Len(td)})

\* years.map(y => { record = timeData.find(...);
\*                  return record ? parseFloat(record.<field>) : 0 })
SeriesOf(td, yrsArg, lulcClass, field) ==
    LET ys == Eager(yrsArg)
    IN Eager([i \in 1..Len(ys) |->
        LET hits == {k \in 1..Len(td) :
                        /\ td[k].year = ys[i]
                        /\ td[k].lulc_class = lulcClass}
        IN IF hits = {} THEN 0 ELSE td[MinOf(hits)][field]])

builtUpTrend(td, ys) == SeriesOf(td, ys, "Built-up", "area_sq_km")
forestTrend(td, ys) == SeriesOf(td, ys, "Forest", "area_sq_km")
waterTrend(td, ys) == SeriesOf(td, ys, "Water", "area_sq_km")

(***************************************************************************)
(* ECOLOGICAL TRAJECTORY ENGINE                                            *)
(***************************************************************************)
EcoTrend_Inclusive(totalEcoLoss) ==
    IF totalEcoLoss >= 200 THEN "Rapid Degradation"
    ELSE IF totalEcoLoss >= 50 THEN "Declining"
    ELSE IF totalEcoLoss <= -10 THEN "Recovering"
    ELSE "Stable"

\* the if / else-if chain on totalEcoLoss (tenths of a sq km)
EcoTrend(totalEcoLoss) ==
    IF totalEcoLoss > 200 THEN "Rapid Degradation"
    ELSE IF totalEcoLoss > 50 THEN "Declining"
    ELSE IF totalEcoLoss < -10 THEN "Recovering"
    ELSE "Stable"

getEcoRiskAssessment(yrsArg, forestArg, waterArg) ==
    IF Len(yrsArg) < 2 THEN Null
    ELSE
      LET forest == Eager(forestArg)
          water == Eager(waterArg)
          baselineForest == forest[1]
          currentForest == forest[Len(forest)]
          forestLoss == baselineForest - currentForest
          forestLossPct == IF baselineForest > 0
                           THEN RoundDiv(forestLoss * 1000, baselineForest)
                           ELSE 0
          baselineWater == water[1]
          currentWater == water[Len(water)]
          waterLoss == baselineWater - currentWater
          waterLossPct == IF baselineWater > 0
                          THEN RoundDiv(waterLoss * 1000, baselineWater)
                          ELSE 0
          totalEcoLoss == forestLoss + waterLoss
      IN Some([lossArea |-> totalEcoLoss,
               trend |-> EcoTrend(totalEcoLoss),
               forestLossPct |-> forestLossPct,
               waterLossPct |-> waterLossPct])

(***************************************************************************)
(* POLICY IMPACT ANALYTICS                                                 *)
(***************************************************************************)
calcRate(ys, dataArr, startIdx, endIdx) ==
    LET diff == dataArr[endIdx] - dataArr[startIdx]
        time == ys[endIdx] - ys[startIdx]
    IN IF time > 0 THEN Rat(diff, time) ELSE RInt(0)

getPolicyEvaluation(yrsArg, builtUpArg) ==
    LET ys == Eager(yrsArg)
        builtUp == Eager(builtUpArg)
        n == Len(ys)
    IN IF n < 4 THEN Null
       ELSE
         LET preUrbanRate == calcRate(ys, builtUp, 1, 2)
             postUrbanRate == calcRate(ys, builtUp, n - 1, n)
             rateChange == RSub(postUrbanRate, preUrbanRate)
         IN Some([preRate |-> RRound(preUrbanRate, 1),
                  postRate |-> RRound(postUrbanRate, 1),
                  assessment |->
                      IF RLt(rateChange, RInt(-10)) THEN "Effective Containment"
                      ELSE IF RGt(rateChange, RInt(10)) THEN "Policy Failure"
                      ELSE "Steady State",
                  magnitude |->
                      IF RLt(rateChange, RInt(-10)) \/ RGt(rateChange, RInt(10))
                      THEN Some(Abs(RRound(rateChange, 1)))
                      ELSE Null])

(***************************************************************************)
(* FUTURE PROJECTION ENGINE                                                *)
(***************************************************************************)
yearsToProject == 2

Reduction_Floor(pi) ==
    IF pi < 10 THEN Rat(6, 100) ELSE Rat(pi * 60, 10000)

\* (policyIntensity / 100) * 0.60
Reduction(pi) == Rat(pi * 60, 10000)

getFutureProjection(yrsArg, builtUpArg, pi) ==
    LET ys == Eager(yrsArg)
        builtUp == Eager(builtUpArg)
    IN IF Len(ys) < 3 THEN Null
       ELSE
         LET lastIdx == Len(ys)
             startIdx == Len(ys) - 2
             timeSpan == ys[lastIdx] - ys[startIdx]
             urbanChange == builtUp[lastIdx] - builtUp[startIdx]
             baseRate == Rat(urbanChange, timeSpan)
             reduction == Reduction(pi)
             annualRate == RMul(baseRate, RSub(RInt(1), reduction))
             projectedUrban == RAdd(RInt(builtUp[lastIdx]),
                                    RMul(annualRate, RInt(yearsToProject)))
             projectedIncrease == RSub(projectedUrban, RInt(builtUp[lastIdx]))
         IN Some([targetYear |-> StrPlus(ys[lastIdx], yearsToProject),
                  projectedArea |-> RRound(projectedUrban, 1),
                  increase |-> RRound(projectedIncrease, 1),
                  projectedUrban |-> projectedUrban,
                  projectedIncrease |-> projectedIncrease,
                  riskLevel |->
                      IF RGt(projectedIncrease, RInt(100)) THEN "Critical"
                      ELSE IF RGt(projectedIncrease, RInt(50)) THEN "High"
                      ELSE "Low",
                  reduction |-> IF RGt(reduction, RInt(0))
                                THEN Some(RRound(reduction, 100)) ELSE Null,
                  savedArea |->
                      IF RGt(reduction, RInt(0))
                      THEN Some(RRound(RSub(RMul(baseRate, RInt(yearsToProject)),
                                            projectedIncrease), 1))
                      ELSE Null])

(***************************************************************************)
(* TEMPORAL EXPLAINABILITY ENGINE                                          *)
(***************************************************************************)
\* the loop over years[1..] and the anomalies it pushes
TemporalExplanationsOf(ys, builtUp) ==
    LET diff(i) == builtUp[i] - builtUp[i - 1]
        all == [i \in 1..(Len(ys) - 1) |->
                   [year |-> ys[i + 1],
                    growth |-> diff(i + 1),
                    cause |-> IF ys[i + 1] = 2020
                                THEN "Post-Covid Peri-urban Migration"
                              ELSE IF ys[i + 1] = 2024
                                THEN "Highway Expansion & Industrial Zone"
                              ELSE IF ys[i + 1] = 2022
                                THEN "Smart City Phase 1 Initiation"
                              ELSE "Unknown Driver",
                    severity |-> IF diff(i + 1) > 150 THEN "High"
                                 ELSE "Medium"]]
    IN FilterSeq(all, [i \in 1..(Len(ys) - 1) |-> diff(i + 1) > 100])

getTemporalExplanations_FromTwoYears(yrsArg, builtUpArg) ==
    IF Len(yrsArg) < 2 THEN <<>>
    ELSE TemporalExplanationsOf(Eager(yrsArg), Eager(builtUpArg))

getTemporalExplanations(yrsArg, builtUpArg) ==
    IF Len(yrsArg) < 3 THEN <<>>
    ELSE TemporalExplanationsOf(Eager(yrsArg), Eager(builtUpArg))

(***************************************************************************)
(* MOCK MULTI-YEAR TRANSITION DATA (flows per year)                        *)
(***************************************************************************)
TRec(y, f, t, a, c) == [year |-> y, from |-> f, to |-> t, area |-> a, confidence |-> c]

MockTransitionData ==
    << TRec(2018, "Forest", "Built-up", 21, 92),
       TRec(2020, "Forest", "Built-up", 54, 88),
       TRec(2022, "Forest", "Built-up", 82, 85),
       TRec(2024, "Forest", "Built-up", 142, 82),
       TRec(2018, "Agriculture", "Built-up", 150, 85),
       TRec(2020, "Agriculture", "Built-up", 195, 84),
       TRec(2022, "Agriculture", "Built-up", 201, 86),
       TRec(2024, "Agriculture", "Built-up", 216, 85),
       TRec(2020, "Water", "Barren", 5, 60),
       TRec(2024, "Water", "Barren", 13, 75) >>

(***************************************************************************)
(* TEMPORAL ANALYTICS ENGINE: TRANSITION EVOLUTION                         *)
(***************************************************************************)
\* Math.log10(a / 10 + 1) in units of 1e-5, for the areas a (tenths of a
\* sq km) that occur as a group's latest flow
Log10E5(a) ==
    CASE a = 0 -> 0 [] a = 5 -> 17609 [] a = 10 -> 30103 [] a = 13 -> 36173
      [] a = 20 -> 47712 [] a = 21 -> 49136
      [] a = 54 -> 80618 [] a = 69 -> 89763 [] a = 82 -> 96379
      [] a = 142 -> 118184 [] a = 150 -> 120412 [] a = 195 -> 131175
      [] a = 201 -> 132428 [] a = 216 -> 135411 [] a = 306 -> 149969
      [] a = 400 -> 161278 [] a = 990 -> 200000 [] a = 1200 -> 208279
      [] a = 2000 -> 230320

NormalizedImpact_NoCap(a) == Log10E5(a)

\* Math.min(logVolume / 2, 1), in units of 0.5e-5
NormalizedImpact(a) == IF Log10E5(a) < 200000 THEN Log10E5(a) ELSE 200000

\* (normalizedImpact * trustFactor * confFactor).toFixed(2), in hundredths
Cpri(a, isConfStable, conf) ==
    LET trustFactor == IF isConfStable THEN 10 ELSE 8
    IN RoundDiv(NormalizedImpact(a) * trustFactor * conf, 2000000)

Readiness_Exclusive(cpri) ==
    IF cpri > 75 THEN "Ready for Action"
    ELSE IF cpri > 45 THEN "Policy Review"
    ELSE "Field Validation"

Readiness(cpri) ==
    IF cpri >= 75 THEN "Ready for Action"
    ELSE IF cpri >= 45 THEN "Policy Review"
    ELSE "Field Validation"

TransitionKey(d) == <<d.from, d.to>>

\* Object.keys(groups): the keys in the order in which data.forEach first
\* inserted them
GroupKeys(recs) ==
    LET firsts == FilterSeq(recs, [i \in 1..Len(recs) |->
                     \A j \in 1..(i - 1) : TransitionKey(recs[j]) # TransitionKey(recs[i])])
    IN Eager([i \in 1..Len(firsts) |-> TransitionKey(firsts[i])])

\* baselineAvg and deviationRatio of a group sorted by year
BaselineAvg(sorted) ==
    LET n == Len(sorted)
    IN IF n - 1 > 0
       THEN Rat(SumSeq([i \in 1..(n - 1) |-> sorted[i].area]), n - 1)
       ELSE RInt(sorted[n].area)

DeviationOf_Unguarded(latestArea, baselineAvg) ==
    RDiv(RInt(latestArea), baselineAvg)

DeviationOf(latestArea, baselineAvg) ==
    IF RGt(baselineAvg, RInt(0)) THEN RDiv(RInt(latestArea), baselineAvg)
    ELSE RInt(1)

Anomaly_Inclusive(deviationRatio) ==
    IF ~RLt(deviationRatio, RInt(2)) THEN "Surge"
    ELSE IF ~RLt(deviationRatio, Rat(13, 10)) THEN "Elevated"
    ELSE "Normal"

Anomaly(deviationRatio) ==
    IF RGt(deviationRatio, RInt(2)) THEN "Surge"
    ELSE IF RGt(deviationRatio, Rat(13, 10)) THEN "Elevated"
    ELSE "Normal"

\* the trend of the latest flow against the previous one (+-15%)
FlowTrend(sorted) ==
    LET n == Len(sorted)
    IN IF n > 1 /\ sorted[n].area * 100 > sorted[n - 1].area * 115
         THEN "Accelerating"
       ELSE IF n > 1 /\ sorted[n].area * 100 < sorted[n - 1].area * 85
         THEN "Decelerating"
       ELSE "Stable"

ConfRange(sorted) ==
    MaxOf({sorted[i].confidence : i \in 1..Len(sorted)})
    - MinOf({sorted[i].confidence : i \in 1..Len(sorted)})

\* the object returned for one key, given the group's derived numbers
Evolution(key, sorted, deviationRatio, confRange, cpri) ==
    [transition |-> key,
     history |-> sorted,
     totalVolume |-> SumSeq([i \in 1..Len(sorted) |-> sorted[i].area]),
     latestFlow |-> sorted[Len(sorted)].area,
     trend |-> FlowTrend(sorted),
     deviationRatio |-> RRound(deviationRatio, 10),
     anomaly |-> Anomaly(deviationRatio),
     isConfStable |-> confRange < 10,
     confRange |-> confRange,
     cpri |-> cpri,
     readiness |-> Readiness(cpri)]

\* the metrics of a group sorted by year
GroupMetrics(key, sorted, latest, confRange) ==
    Evolution(key, sorted,
              DeviationOf(latest.area, BaselineAvg(sorted)),
              confRange,
              Cpri(latest.area, confRange < 10, latest.confidence))

SortByYear(group) == SortAsc(group, [i \in 1..Len(group) |-> group[i].year])

MetricsOfSorted(key, sorted) ==
    GroupMetrics(key, sorted, sorted[Len(sorted)], ConfRange(sorted))

EvolutionOf(recs, key) ==
    MetricsOfSorted(key,
        SortByYear(FilterSeq(recs, [i \in 1..Len(recs) |->
                                       TransitionKey(recs[i]) = key])))

EvolutionsOfKeys(recs, keys) ==
    Eager([i \in 1..Len(keys) |-> EvolutionOf(recs, keys[i])])

RankByCpri(evs) == SortDesc(evs, [i \in 1..Len(evs) |-> evs[i].cpri])

EvolutionsOf(recs) == RankByCpri(EvolutionsOfKeys(recs, GroupKeys(recs)))

analyzeTransitionEvolution(recsArg) == EvolutionsOf(Eager(recsArg))

(***************************************************************************)
(* ACTION RECOMMENDATION ENGINE                                            *)
(***************************************************************************)
B2N(b) == IF b THEN 1 ELSE 0

\* the persona-dependent targetedTrends.sort(...) on a copy of transitionTrends
TargetedTrends(trendsArg, persona) ==
    LET trends == Eager(trendsArg)
    IN IF persona = "urban_planner"
       THEN SortDesc(trends, [i \in 1..Len(trends) |->
                B2N(trends[i].history[1].to = "Built-up")])
       ELSE IF persona = "environmental_officer"
       THEN SortDesc(trends, [i \in 1..Len(trends) |->
                B2N(\/ trends[i].history[1].from = "Forest"
                    \/ trends[i].history[1].from = "Water Body")])
       ELSE trends

UrgencyBand_Exclusive(cpri) ==
    IF cpri > 75 THEN "Immediate"
    ELSE IF cpri > 45 THEN "High" ELSE "Critical"

\* if (cpri >= 0.75) ... else if (cpri >= 0.45) ... else ...
UrgencyBand(cpri) ==
    IF cpri >= 75 THEN "Immediate"
    ELSE IF cpri >= 45 THEN "High" ELSE "Critical"

Recommendation(item, id) ==
    LET latest == item.history[Len(item.history)]
        cpri == item.cpri
        area == latest.area
        fromClass == latest.from
        toClass == latest.to
        band == UrgencyBand(cpri)
    IN [id |-> id,
        details |-> <<fromClass, toClass, area>>,
        action |->
            IF band = "Immediate"
            THEN (IF fromClass = "Forest"
                    THEN <<"Issue Halt Order & Eco-Restoration Plan">>
                  ELSE IF toClass = "Built-up"
                    THEN <<"Formalize Zoning & Collect Development Tax">>
                  ELSE <<"Update Land Records Registry">>)
            ELSE IF band = "High"
            THEN <<"Schedule Committee Review", area>>
            ELSE <<"Dispatch Field Inspection Team", fromClass, toClass>>,
        urgency |-> band,
        dept |->
            IF band = "Immediate"
            THEN (IF fromClass = "Forest" THEN "Environment Dept"
                  ELSE IF toClass = "Built-up" THEN "Urban Planning"
                  ELSE "Revenue Dept")
            ELSE IF band = "High" THEN "Planning Committee"
            ELSE "Enforcement Wing",
        readiness |-> cpri,
        logic |->
            << [label |-> "1. Data Inputs",
                value |-> <<area, latest.confidence, item.isConfStable>>],
               [label |-> "2. Calculated CPRI", value |-> <<cpri>>],
               [label |-> "3. Decision Rule",
                value |-> IF cpri >= 75 THEN <<"Score >= 0.75 -> Auto-Route to Dept">>
                          ELSE IF cpri >= 45 THEN <<"Score >= 0.45 -> Committee Review">>
                          ELSE <<"Score < 0.45 -> Field Validation">>] >>]

getActionRecommendations_RandomOrder(trendsArg, persona, rand) ==
    LET trends == Eager(trendsArg)
    IN IF Len(trends) = 0 THEN <<>>
       ELSE LET targeted == TargetedTrends(trends, persona)
                shuffled == IF rand[1] % 2 = 0
                            THEN [i \in 1..Len(targeted) |->
                                     targeted[Len(targeted) + 1 - i]]
                            ELSE targeted
                topItems == Slice(shuffled, 0, 3)
            IN Eager([i \in 1..Len(topItems) |-> Recommendation(topItems[i], rand[i])])

\* rand is the stream of values Math.random() returns during the render
getActionRecommendations(trendsArg, persona, rand) ==
    LET trends == Eager(trendsArg)
    IN IF Len(trends) = 0 THEN <<>>
       ELSE LET topItems == Slice(TargetedTrends(trends, persona), 0, 3)
            IN Eager([i \in 1..Len(topItems) |-> Recommendation(topItems[i], rand[i])])

(***************************************************************************)
(* BUDGET SURVEY OPTIMIZER                                                 *)
(***************************************************************************)
surveyCostPerSite == 1200

DeferredSites_SkipOne(rankedCandidates, maxSites) ==
    SliceFrom(rankedCandidates, maxSites + 1)

\* rankedCandidates.slice(maxSites)
DeferredSites(rankedCandidates, maxSites) == SliceFrom(rankedCandidates, maxSites)

\* rankedCandidates.slice(0, maxSites)
SelectedSites(rankedCandidates, maxSites) == Slice(rankedCandidates, 0, maxSites)

\* transitionTrends.filter(t => parseFloat(t.cpri) < 0.45)
SurveyCandidates(trends) ==
    FilterSeq(trends, [i \in 1..Len(trends) |-> trends[i].cpri < 45])

RankCandidates_KeepsCpriOrder(candidates) == candidates

\* candidates.sort((a,b) => parseFloat(b.latestFlow) - parseFloat(a.latestFlow))
RankCandidates(candidates) ==
    SortDesc(candidates, [i \in 1..Len(candidates) |-> candidates[i].latestFlow])

getBudgetOptimizedSurveys(trendsArg, bgt) ==
    LET rankedCandidates == RankCandidates(SurveyCandidates(Eager(trendsArg)))
        maxSites == bgt \div surveyCostPerSite
        selectedSites == SelectedSites(rankedCandidates, maxSites)
        deferredSites == DeferredSites(rankedCandidates, maxSites)
    IN [selected |-> Eager([i \in 1..Len(selectedSites) |->
            LET s == selectedSites[i]
                l == s.history[Len(s.history)]
            IN [from |-> l.from, to |-> l.to, confidence |-> l.confidence,
                area_sq_km |-> s.latestFlow, id |-> s.transition]]),
        deferredCount |-> Len(deferredSites),
        totalCost |-> Len(selectedSites) * surveyCostPerSite,
        maxPossible |-> maxSites]

(***************************************************************************)
(* NARRATIVE INTELLIGENCE ENGINE                                           *)
(***************************************************************************)
generateChangeNarrative(trendsArg, persona) ==
    LET all == Eager(trendsArg)
    IN
    IF Len(all) = 0
    THEN [title |-> <<"Insufficient Data">>, body |-> <<"No trends detected.">>]
    ELSE
      LET urban == FilterSeq(all, [i \in 1..Len(all) |->
                       \/ all[i].history[1].to = "Built-up"
                       \/ all[i].history[1].from = "Built-up"])
          eco == FilterSeq(all, [i \in 1..Len(all) |->
                       \/ all[i].history[1].from = "Forest"
                       \/ all[i].history[1].from = "Water Body"])
          candidateTrends ==
              IF persona = "urban_planner"
              THEN (IF Len(urban) = 0 THEN all ELSE urban)
              ELSE IF persona = "environmental_officer"
              THEN (IF Len(eco) = 0 THEN all ELSE eco)
              ELSE all
          top == candidateTrends[1]
          isAccelerating == top.trend = "Accelerating"
          isSurge == top.anomaly = "Surge"
      IN [title |-> IF isSurge THEN <<"Surge Alert", top.transition>>
                    ELSE IF isAccelerating THEN <<"Accelerating Scale", top.transition>>
                    ELSE <<"Major Shift", top.transition>>,
          body |->
              IF persona = "urban_planner"
              THEN <<"Urban Expansion Alert", top.history[1].to, top.latestFlow,
                     IF isAccelerating THEN "immediate infrastructure scaling"
                     ELSE "planned zoning updates">>
              ELSE IF persona = "environmental_officer"
              THEN <<"Ecological Warning", top.history[1].from, top.latestFlow,
                     IF top.cpri > 75 THEN "urgently required"
                     ELSE "dependent on field verification">>
              ELSE <<"The most significant land-use change", top.history[1].from,
                     top.history[1].to, top.trend, top.latestFlow, top.cpri,
                     IF top.cpri > 75 THEN "immediate policy intervention is recommended"
                     ELSE "field verification before regulation">>]

(***************************************************************************)
(* VELOCITY & ACCELERATION ANALYTICS                                       *)
(***************************************************************************)
getVelocityMetrics(trendArg, yrsArg) ==
    LET trendValues == Eager(trendArg)
        yrs == Eager(yrsArg)
    IN
    IF Len(trendValues) < 3
    THEN [velocity |-> 0, acceleration |-> 0, status |-> "Stable"]
    ELSE
      LET n == Len(trendValues)
          vCurrent == Rat(trendValues[n] - trendValues[n - 1], yrs[n] - yrs[n - 1])
          vPrev == Rat(trendValues[n - 1] - trendValues[n - 2], yrs[n - 1] - yrs[n - 2])
          acceleration == RSub(vCurrent, vPrev)
      IN [velocity |-> RRound(vCurrent, 1),
          acceleration |-> RRound(acceleration, 10),
          status |-> IF RGt(acceleration, RInt(5)) THEN "Rapid Acceleration"
                     ELSE IF RGt(acceleration, RInt(0)) THEN "Accelerating"
                     ELSE IF RLt(acceleration, RInt(-5)) THEN "Rapid Deceleration"
                     ELSE IF RLt(acceleration, RInt(0)) THEN "Decelerating"
                     ELSE "Stable"]

\* the largest r in lo..hi with r * r <= x
RECURSIVE SqrtSearch(_, _, _)
SqrtSearch(x, lo, hi) ==
    IF lo = hi THEN lo
    ELSE LET mid == (lo + hi + 1) \div 2
         IN IF mid * mid <= x THEN SqrtSearch(x, mid, hi)
            ELSE SqrtSearch(x, lo, mid - 1)

FloorSqrt(x) == SqrtSearch(x, 0, 46340)
CeilSqrt(x) == LET r == FloorSqrt(x) IN IF r * r = x THEN r ELSE r + 1

\* With confidences c[1..n] in hundredths, q = n * sum(c^2) - sum(c)^2, so
\* that variance = q / n^2 and stdDev = sqrt(q) / n (both in hundredths).
StabilityLabel_Inclusive(q, n) ==
    IF q >= 100 * n * n THEN "Highly Unstable"
    ELSE IF q >= 25 * n * n THEN "Moderate Stability"
    ELSE "High Stability"

\* if (stdDev > 0.10) ... else if (stdDev > 0.05) ...
StabilityLabel(q, n) ==
    IF q > 100 * n * n THEN "Highly Unstable"
    ELSE IF q > 25 * n * n THEN "Moderate Stability"
    ELSE "High Stability"

getConfidenceStability(td, ys, lulcClass) ==
    LET all == SeriesOf(td, ys, lulcClass, "confidence")
        confValues == FilterSeq(all, [i \in 1..Len(all) |-> all[i] > 0])
        n == Len(confValues)
        q == n * SumSeq([i \in 1..n |-> confValues[i] * confValues[i]])
             - SumSeq(confValues) * SumSeq(confValues)
    IN IF n < 2
       THEN [score |-> 0, label |-> "Insufficient Data"]
       ELSE [score |-> (201 * n - CeilSqrt(4 * q)) \div (2 * n),
             label |-> StabilityLabel(q, n),
             stdDev |-> (FloorSqrt(400 * q) + n) \div (2 * n)]

(***************************************************************************)
(* META-INTELLIGENCE: TEMPORAL TRUST SCORE                                 *)
(***************************************************************************)
getTemporalTrustScore(td, yrsArg, builtUpArg) ==
    IF Len(yrsArg) < 2 THEN [score |-> 0, level |-> "Low"]
    ELSE
      LET stabilityScore ==
              Rat(getConfidenceStability(td, yrsArg, "Built-up").score, 100)
          builtUp == Eager(builtUpArg)
          n == Len(builtUp)
          monotonicCount == Cardinality({i \in 2..n : builtUp[i] >= builtUp[i - 1]})
          consistencyScore == Rat(monotonicCount, n - 1)
          recentArea == builtUp[n]
          magnitudeScore == IF recentArea < 500 THEN Rat(recentArea, 500) ELSE RInt(1)
          rawScore == RAdd(RAdd(RMul(stabilityScore, Rat(4, 10)),
                                RMul(consistencyScore, Rat(4, 10))),
                           RMul(magnitudeScore, Rat(2, 10)))
          finalScore == RRound(rawScore, 100)
      IN [score |-> finalScore,
          level |-> IF finalScore >= 85 THEN "High Trust"
                    ELSE IF finalScore <= 60 THEN "Low Trust"
                    ELSE "Moderate"]

(***************************************************************************)
(* DECISION LOGIC LAYER and filters                                        *)
(***************************************************************************)
getDecisionStatus(confidence) ==
    IF confidence >= 85 THEN "Safe to Act"
    ELSE IF confidence >= 75 THEN "Review Required"
    ELSE "Field Validation Needed"

ScenarioKeeps(d, scenario) ==
    IF scenario = "urban" THEN d.to = "Built-up"
    ELSE IF scenario = "eco"
    THEN /\ (d.from = "Forest" \/ d.from = "Water Body")
         /\ (d.to = "Built-up" \/ d.to = "Barren")
    ELSE TRUE

filteredData_AnyConfidence(recsArg, minConf, scenario) ==
    LET recs == Eager(recsArg)
    IN FilterSeq(recs, [i \in 1..Len(recs) |-> ScenarioKeeps(recs[i], scenario)])

\* data.filter(d => ...)
filteredData(recsArg, minConf, scenario) ==
    LET recs == Eager(recsArg)
    IN FilterSeq(recs, [i \in 1..Len(recs) |->
           IF recs[i].confidence < minConf THEN FALSE
           ELSE ScenarioKeeps(recs[i], scenario)])

decisionCounts(recsArg) ==
    LET recs == Eager(recsArg)
        count(label) == Cardinality({i \in 1..Len(recs) :
                            getDecisionStatus(recs[i].confidence) = label})
    IN [safe |-> count("Safe to Act"),
        review |-> count("Review Required"),
        field |-> count("Field Validation Needed")]

(***************************************************************************)
(* GOVERNANCE ALERT ENGINE                                                 *)
(***************************************************************************)
BdiBand_Inclusive(bdi) ==
    IF ~RLt(bdi, Rat(15, 10)) THEN "high"
    ELSE IF ~RLt(bdi, Rat(12, 10)) THEN "medium"
    ELSE "none"

\* if (bdi > 1.5) ... else if (bdi > 1.2) ...
BdiBand(bdi) ==
    IF RGt(bdi, Rat(15, 10)) THEN "high"
    ELSE IF RGt(bdi, Rat(12, 10)) THEN "medium"
    ELSE "none"

\* baselineRate, recentRate and bdi of Rule 4, for n = vals.length >= 4
Bdi(vals, yrs) ==
    LET n == Len(vals)
        baselineYears == yrs[n - 1] - yrs[1]
        baselineChange == vals[n - 1] - vals[1]
        baselineRate == Rat(baselineChange, baselineYears)
        recentYears == yrs[n] - yrs[n - 1]
        recentChange == vals[n] - vals[n - 1]
        recentRate == Rat(recentChange, recentYears)
    IN [baselineRate |-> baselineRate,
        recentRate |-> recentRate,
        bdi |-> IF baselineRate # RInt(0) THEN RDiv(recentRate, baselineRate)
                ELSE RInt(0)]

\* Rule 4: Baseline Deviation Index
BdiAlerts(valsArg, yrsArg) ==
    LET vals == Eager(valsArg)
        yrs == Eager(yrsArg)
    IN IF Len(vals) >= 4
       THEN
         LET bdi == Bdi(vals, yrs).bdi
         IN IF BdiBand(bdi) = "high"
            THEN << [type |-> "high", title |-> "Abnormal Growth Spike",
                     desc |-> <<RRound(bdi, 10)>>, items |-> <<>>] >>
            ELSE IF BdiBand(bdi) = "medium"
            THEN << [type |-> "medium", title |-> "Growth Acceleration",
                     desc |-> <<RRound(RSub(RMul(bdi, RInt(100)), RInt(100)), 1)>>,
                     items |-> <<>>] >>
            ELSE <<>>
       ELSE <<>>

\* Rule 1: High Ecological Risk
EcoRiskItems(recs) ==
    FilterSeq(recs, [i \in 1..Len(recs) |->
        /\ (recs[i].from = "Forest" \/ recs[i].from = "Water Body")
        /\ (recs[i].to = "Built-up" \/ recs[i].to = "Barren")
        /\ recs[i].confidence > 80])

EcoRiskAlert_PersonaOnly(ecoRiskItems, persona) ==
    IF Len(ecoRiskItems) > 0 /\ persona = "environmental_officer"
    THEN << [type |-> "high", title |-> "Critical Ecosystem Loss",
             desc |-> <<Len(ecoRiskItems)>>, items |-> ecoRiskItems] >>
    ELSE <<>>

EcoRiskAlert(ecoRiskItems, persona) ==
    IF Len(ecoRiskItems) > 0
    THEN << [type |-> "high",
             title |-> IF persona = "environmental_officer"
                       THEN "Critical Ecosystem Loss" ELSE "Ecological Risk",
             desc |-> <<Len(ecoRiskItems)>>,
             items |-> ecoRiskItems] >>
    ELSE <<>>

\* Rule 2: Urban Sprawl Detection
UrbanSprawl(recs) ==
    FilterSeq(recs, [i \in 1..Len(recs) |->
        recs[i].from = "Agriculture" /\ recs[i].to = "Built-up"])

TotalSprawlArea(urbanSprawl) ==
    SumSeq([i \in 1..Len(urbanSprawl) |-> urbanSprawl[i].area_sq_km])

SprawlAlert(urbanSprawl, totalSprawlArea, persona) ==
    IF totalSprawlArea > 50
    THEN << [type |-> "medium",
             title |-> IF persona = "urban_planner"
                       THEN "Unplanned Sprawl Detected" ELSE "Urban Sprawl Alert",
             desc |-> <<totalSprawlArea>>,
             items |-> urbanSprawl] >>
    ELSE <<>>

\* Rule 3: Dominance Logic (Planning Blind Spots)
LowConfChanges(recs) ==
    FilterSeq(recs, [i \in 1..Len(recs) |-> recs[i].confidence < 60])

DataGapAlert(lowConfChanges) ==
    IF Len(lowConfChanges) > 2
    THEN << [type |-> "low", title |-> "Data Gap Identified",
             desc |-> <<Len(lowConfChanges)>>,
             items |-> lowConfChanges] >>
    ELSE <<>>

\* alerts.push(...) in the order of the rules
AlertsOf(recs, trends, persona) ==
    EcoRiskAlert(EcoRiskItems(recs), persona)
    \o SprawlAlert(UrbanSprawl(recs), TotalSprawlArea(UrbanSprawl(recs)), persona)
    \o DataGapAlert(LowConfChanges(recs))
    \o BdiAlerts(trends.builtUp, trends.years)

generateGovernanceAlerts(recsArg, trends, persona) ==
    AlertsOf(Eager(recsArg), trends, persona)

(***************************************************************************)
(* PRIORITY INDEX LOGIC                                                    *)
(***************************************************************************)
\* weights in tenths
getPolicyWeight(persona, from, to) ==
    IF persona = "environmental_officer"
    THEN (IF from = "Forest" \/ from = "Water Body" THEN 30 ELSE 10)
    ELSE IF persona = "urban_planner"
    THEN (IF to = "Built-up" THEN 20 ELSE 10)
    ELSE IF from = "Forest" /\ to = "Built-up" THEN 15
    ELSE IF from = "Water Body" THEN 20
    ELSE IF from = "Agriculture" /\ to = "Built-up" THEN 12
    ELSE 10

\* filteredData.map(...).sort((a,b) => b.impactScore - a.impactScore)
prioritizedData(filteredArg, persona) ==
    LET recs == Eager(filteredArg)
        scored == Eager([i \in 1..Len(recs) |->
            LET d == recs[i]
                weight == getPolicyWeight(persona, d.from, d.to)
            IN [year |-> d.year, from |-> d.from, to |-> d.to,
                area_sq_km |-> d.area_sq_km, confidence |-> d.confidence,
                impactScore |-> RoundDiv(d.area_sq_km * d.confidence * weight, 1000),
                weight |-> weight]])
    IN SortDesc(scored, [i \in 1..Len(scored) |-> scored[i].impactScore])

(***************************************************************************)
(* TRANSITION HEAT RANKING LOGIC                                           *)
(***************************************************************************)
getRankedData_IgnoresMode(prioritizedArg, mode) == Eager(prioritizedArg)

getRankedData(prioritizedArg, mode) ==
    LET sorted == Eager(prioritizedArg)
    IN IF mode = "area"
       THEN SortDesc(sorted, [i \in 1..Len(sorted) |-> sorted[i].area_sq_km])
       ELSE IF mode = "confidence"
       THEN SortDesc(sorted, [i \in 1..Len(sorted) |-> sorted[i].confidence])
       ELSE sorted

(***************************************************************************)
(* CHANGE STORY ENGINE and FIELD SURVEY LOGIC                              *)
(***************************************************************************)
generateChangeStory(recsArg, persona) ==
    LET recs == Eager(recsArg)
    IN
    IF Len(recs) = 0 THEN << [id |-> 0, text |-> <<"No sufficient data.">>] >>
    ELSE
      LET largestChange == SortDesc(recs, [i \in 1..Len(recs) |-> recs[i].area_sq_km])[1]
          urbanGrowth == SumSeq([i \in 1..Len(recs) |->
              IF recs[i].to = "Built-up" THEN recs[i].area_sq_km ELSE 0])
          ecoLoss == SumSeq([i \in 1..Len(recs) |->
              IF /\ (recs[i].from = "Forest" \/ recs[i].from = "Water Body")
                 /\ recs[i].to # "Forest"
              THEN recs[i].area_sq_km ELSE 0])
      IN IF persona = "urban_planner"
         THEN << [id |-> 1, text |-> <<"Urban Report", urbanGrowth, largestChange.to>>] >>
         ELSE IF persona = "environmental_officer"
         THEN << [id |-> 1, text |-> <<"Eco-Status", ecoLoss>>] >>
         ELSE << [id |-> 1, text |-> <<"Executive Summary", largestChange.from,
                                        largestChange.to, largestChange.area_sq_km>>] >>

generateFieldSurveyTasks(recsArg) ==
    LET recs == Eager(recsArg)
        kept == FilterSeq(recs, [i \in 1..Len(recs) |->
            \/ (recs[i].confidence < 75 /\ recs[i].area_sq_km > 5)
            \/ (recs[i].impactScore > 20 /\ recs[i].confidence < 85)])
        top == Slice(SortDesc(kept, [i \in 1..Len(kept) |-> kept[i].area_sq_km]), 0, 5)
    IN Eager([i \in 1..Len(top) |->
           [task |-> <<"Validate", top[i].from, top[i].to>>,
            reason |-> IF top[i].confidence < 75
                       THEN "Low model confidence due to spectral mixing"
                       ELSE "High-impact transition requires on-ground verification",
            location |-> top[i].area_sq_km,
            priority |-> IF top[i].impactScore > 25 THEN "High" ELSE "Medium"]])

(***************************************************************************)
(* Arrays are objects shared by reference: Array.prototype.sort reorders   *)
(* the array it is called on, for every holder of that array.  The         *)
(* operators below give the contents of an array the render reads, after   *)
(* the functions that sort a list made from it have run.                   *)
(***************************************************************************)
AfterSortOfCopy_InPlace(a, sortedCopy) == sortedCopy

\* contents of a after  [...a].sort(cmp)  or  a.filter(f).sort(cmp):  the
\* spread / filter makes a new array and sort() reorders that one
AfterSortOfCopy(a, sortedCopy) == a

\* data after analyzeTransitionEvolution(data): the arrays sorted by year
\* are the per-key groups filled by push, not data
RecordsAfterEvolution(recs) == AfterSortOfCopy(recs, SortByYear(recs))

\* transitionTrends after getActionRecommendations(), which sorts
\* targetedTrends = [...transitionTrends]
TrendsAfterRecommendations(trends, persona) ==
    AfterSortOfCopy(trends, TargetedTrends(trends, persona))

\* transitionTrends after getBudgetOptimizedSurveys(), which sorts
\* candidates = transitionTrends.filter(...)
TrendsAfterSurveys(trends) ==
    AfterSortOfCopy(trends, RankCandidates(SurveyCandidates(trends)))

\* prioritizedData after getRankedData(), which sorts [...prioritizedData]
PrioritizedAfterRanking(prioritized, mode) ==
    AfterSortOfCopy(prioritized, getRankedData(prioritized, mode))

\* filteredData after generateChangeStory(filteredData), which sorts [...data]
FilteredAfterStory(recs) ==
    AfterSortOfCopy(recs, SortDesc(recs, [i \in 1..Len(recs) |-> recs[i].area_sq_km]))

\* the arrays of the component at the end of a render
ArraysAfterRender(st, trends, filtered, prioritized) ==
    [data |-> st.data,
     timeData |-> st.timeData,
     temporalTransitionData |-> RecordsAfterEvolution(st.temporalTransitionData),
     transitionTrends |->
         TrendsAfterSurveys(TrendsAfterRecommendations(trends, st.activePersona)),
     filteredData |-> FilteredAfterStory(filtered),
     prioritizedData |-> PrioritizedAfterRanking(prioritized, st.rankMode)]

(***************************************************************************)
(* One render of App: every derived structure, computed from the state st  *)
(* of the component (the values of the useState hooks and the dataset).    *)
(***************************************************************************)
St ==
    [data |-> data, timeData |-> timeData, activePersona |-> activePersona,
     activeScenario |-> activeScenario, activeTab |-> activeTab,
     minConfidence |-> minConfidence, policyIntensity |-> policyIntensity,
     budget |-> budget, showLogic |-> showLogic, rankMode |-> rankMode,
     reportOpen |-> reportOpen, temporalTransitionData |-> temporalTransitionData]

Derived(st) ==
    LET td == st.timeData
        persona == st.activePersona
        ys == years(td)
        builtUp == builtUpTrend(td, ys)
        forest == forestTrend(td, ys)
        water == waterTrend(td, ys)
        trends == analyzeTransitionEvolution(st.temporalTransitionData)
        filtered == filteredData(st.data, st.minConfidence, st.activeScenario)
        prioritized == prioritizedData(filtered, persona)
    IN [years |-> ys,
        builtUpTrend |-> builtUp,
        forestTrend |-> forest,
        waterTrend |-> water,
        ecoRisk |-> getEcoRiskAssessment(ys, forest, water),
        policyEval |-> getPolicyEvaluation(ys, builtUp),
        futureProj |-> getFutureProjection(ys, builtUp, st.policyIntensity),
        temporalAnomalies |-> getTemporalExplanations(ys, builtUp),
        transitionTrends |-> trends,
        narrative |-> generateChangeNarrative(trends, persona),
        optimizedSurveys |-> getBudgetOptimizedSurveys(trends, st.budget),
        urbanMetrics |-> getVelocityMetrics(builtUp, ys),
        urbanStability |-> getConfidenceStability(td, ys, "Built-up"),
        trustScore |-> getTemporalTrustScore(td, ys, builtUp),
        filteredData |-> filtered,
        decisionCounts |-> decisionCounts(filtered),
        prioritizedData |-> prioritized,
        governanceAlerts |-> generateGovernanceAlerts(filtered,
                                 [builtUp |-> builtUp, years |-> ys], persona),
        rankedData |-> getRankedData(prioritized, st.rankMode),
        changeStories |-> generateChangeStory(filtered, persona),
        surveyTasks |-> generateFieldSurveyTasks(prioritized),
        arrays |-> ArraysAfterRender(st, trends, filtered, prioritized)]

WithRecommendations_PerFilteredRecord(d, persona, rand) ==
    d @@ [recommendedActions |->
             getActionRecommendations(
                 Slice(d.transitionTrends, 0, Len(d.filteredData)), persona, rand)]

\* recommendedActions = getActionRecommendations(), the one derived value
\* that reads Math.random(); rand is the stream of values it returns
WithRecommendations(d, persona, rand) ==
    d @@ [recommendedActions |->
             getActionRecommendations(d.transitionTrends, persona, rand)]

Render(st, rand) == WithRecommendations(Derived(st), st.activePersona, rand)

\* the streams of values Math.random() may return during one render
RandomStreams == {<<1, 2, 3>>, <<4, 5, 6>>}

\* nothing has been rendered yet
NoRender == [years |-> <<>>]

(***************************************************************************)
(* Input sets of the component.                                            *)
(***************************************************************************)
Personas == {"urban_planner", "environmental_officer", "policy_maker"}
Scenarios == {"all", "urban", "eco"}
Tabs == {"dashboard", "map"}
RankModes == {"impact", "confidence"}
MinConfidenceInputs == {0, 60}
PolicyIntensityInputs == {0, 100}
\* results of parseInt(e.target.value) for the budget field: NaN or an integer
ParsedInt(n) == [nan |-> FALSE, n |-> n]
NaN == [nan |-> TRUE, n |-> 0]
BudgetKeyed == {NaN, ParsedInt(-1200), ParsedInt(5000)}

DRow(y, f, t, a, c) ==
    [year |-> y, from |-> f, to |-> t, area_sq_km |-> a, confidence |-> c]

TRow(y, cls, a, c) ==
    [year |-> y, lulc_class |-> cls, area_sq_km |-> a, confidence |-> c]

\* contents of transition_data.csv
DataTables ==
    { << DRow(2024, "Forest", "Built-up", 142, 88),
         DRow(2024, "Agriculture", "Built-up", 216, 84),
         DRow(2024, "Water", "Barren", 13, 55),
         DRow(2024, "Water Body", "Built-up", 24, 90),
         DRow(2024, "Forest", "Agriculture", 30, 58),
         DRow(2024, "Barren", "Built-up", 8, 50) >> }

\* contents of lulc_timeseries.csv
TimeTables ==
    { << TRow(2018, "Built-up", 100, 90), TRow(2018, "Forest", 1000, 92),
         TRow(2018, "Water", 50, 80),
         TRow(2020, "Built-up", 180, 91), TRow(2020, "Forest", 950, 90),
         TRow(2020, "Water", 50, 82),
         TRow(2022, "Built-up", 200, 89), TRow(2022, "Forest", 900, 91),
         TRow(2022, "Water", 45, 81),
         TRow(2024, "Built-up", 275, 90), TRow(2024, "Forest", 780, 89),
         TRow(2024, "Water", 40, 80) >> }

(***************************************************************************)
(* The component.                                                          *)
(***************************************************************************)
Defaults ==
    /\ activePersona = "policy_maker"
    /\ activeScenario = "all"
    /\ activeTab = "dashboard"
    /\ minConfidence = 0
    /\ showLogic = FALSE
    /\ rankMode = "impact"
    /\ reportOpen = FALSE
    /\ dataLoading = FALSE
    /\ timeLoading = FALSE
    /\ mounted = FALSE
    /\ out = NoRender

Init ==
    /\ data = <<>>
    /\ timeData = <<>>
    /\ policyIntensity = 0
    /\ budget = 5000
    /\ temporalTransitionData = MockTransitionData
    /\ Defaults

\* React calls App() after a state change; the new values are the primed ones
Rerender ==
    \E st \in {St'} : \E d \in {Derived(st)} : \E rand \in RandomStreams :
        out' = WithRecommendations(d, st.activePersona, rand)

\* first render, then the effect starts both downloads
Mount ==
    /\ ~mounted
    /\ mounted' = TRUE
    /\ dataLoading' = TRUE
    /\ timeLoading' = TRUE
    /\ UNCHANGED <<data, timeData, activePersona, activeScenario, activeTab,
                   minConfidence, policyIntensity, budget, showLogic, rankMode,
                   reportOpen, temporalTransitionData>>
    /\ Rerender

\* complete callback of Papa.parse("/transition_data.csv")
LoadData ==
    /\ mounted /\ dataLoading
    /\ \E t \in DataTables : data' = t
    /\ dataLoading' = FALSE
    /\ UNCHANGED <<timeData, activePersona, activeScenario, activeTab,
                   minConfidence, policyIntensity, budget, showLogic, rankMode,
                   reportOpen, temporalTransitionData, timeLoading, mounted>>
    /\ Rerender

\* complete callback of Papa.parse("/lulc_timeseries.csv"), the file being
\* one of tables
LoadTimeDataFrom(tables) ==
    /\ mounted /\ timeLoading
    /\ \E t \in tables : timeData' = t
    /\ timeLoading' = FALSE
    /\ UNCHANGED <<data, activePersona, activeScenario, activeTab,
                   minConfidence, policyIntensity, budget, showLogic, rankMode,
                   reportOpen, temporalTransitionData, dataLoading, mounted>>
    /\ Rerender

SetActivePersona ==
    /\ mounted
    /\ \E p \in Personas : p # activePersona /\ activePersona' = p
    /\ UNCHANGED <<data, timeData, activeScenario, activeTab,
                   minConfidence, policyIntensity, budget, showLogic, rankMode,
                   reportOpen, temporalTransitionData, dataLoading, timeLoading, mounted>>
    /\ Rerender

SetActiveScenario ==
    /\ mounted
    /\ \E sc \in Scenarios : sc # activeScenario /\ activeScenario' = sc
    /\ UNCHANGED <<data, timeData, activePersona, activeTab,
                   minConfidence, policyIntensity, budget, showLogic, rankMode,
                   reportOpen, temporalTransitionData, dataLoading, timeLoading, mounted>>
    /\ Rerender

SetActiveTab ==
    /\ mounted
    /\ \E t \in Tabs : t # activeTab /\ activeTab' = t
    /\ UNCHANGED <<data, timeData, activePersona, activeScenario,
                   minConfidence, policyIntensity, budget, showLogic, rankMode,
                   reportOpen, temporalTransitionData, dataLoading, timeLoading, mounted>>
    /\ Rerender

\* onChange of the range slider: setMinConfidence(parseFloat(e.target.value))
SetMinConfidence ==
    /\ mounted
    /\ \E v \in MinConfidenceInputs : v # minConfidence /\ minConfidence' = v
    /\ UNCHANGED <<data, timeData, activePersona, activeScenario, activeTab,
                   policyIntensity, budget, showLogic, rankMode,
                   reportOpen, temporalTransitionData, dataLoading, timeLoading, mounted>>
    /\ Rerender

\* onChange of the slider: setPolicyIntensity(parseInt(e.target.value))
SetPolicyIntensity ==
    /\ mounted
    /\ \E v \in PolicyIntensityInputs : v # policyIntensity /\ policyIntensity' = v
    /\ UNCHANGED <<data, timeData, activePersona, activeScenario, activeTab,
                   minConfidence, budget, showLogic, rankMode,
                   reportOpen, temporalTransitionData, dataLoading, timeLoading, mounted>>
    /\ Rerender

BudgetFromInput_Unclamped(keyed) ==
    IF keyed.nan THEN 0 ELSE keyed.n

\* Math.max(0, parseInt(e.target.value) || 0)
BudgetFromInput(keyed) ==
    IF keyed.nan THEN 0 ELSE IF keyed.n > 0 THEN keyed.n ELSE 0

SetBudget_Stale ==
    /\ mounted
    /\ \E keyed \in BudgetKeyed :
          /\ BudgetFromInput(keyed) # budget
          /\ budget' = BudgetFromInput(keyed)
    /\ UNCHANGED <<data, timeData, activePersona, activeScenario, activeTab,
                   minConfidence, policyIntensity, showLogic, rankMode,
                   reportOpen, temporalTransitionData, dataLoading, timeLoading,
                   mounted, out>>

\* onChange of the budget field, the text keyed being one of keyedSet
SetBudgetFrom(keyedSet) ==
    /\ mounted
    /\ \E keyed \in keyedSet :
          /\ BudgetFromInput(keyed) # budget
          /\ budget' = BudgetFromInput(keyed)
    /\ UNCHANGED <<data, timeData, activePersona, activeScenario, activeTab,
                   minConfidence, policyIntensity, showLogic, rankMode,
                   reportOpen, temporalTransitionData, dataLoading, timeLoading, mounted>>
    /\ Rerender

SetBudget == SetBudgetFrom(BudgetKeyed)

\* onClick: setShowLogic(!showLogic)
ToggleShowLogic ==
    /\ mounted
    /\ showLogic' = ~showLogic
    /\ UNCHANGED <<data, timeData, activePersona, activeScenario, activeTab,
                   minConfidence, policyIntensity, budget, rankMode,
                   reportOpen, temporalTransitionData, dataLoading, timeLoading, mounted>>
    /\ Rerender

SetRankMode ==
    /\ mounted
    /\ \E m \in RankModes : m # rankMode /\ rankMode' = m
    /\ UNCHANGED <<data, timeData, activePersona, activeScenario, activeTab,
                   minConfidence, policyIntensity, budget, showLogic,
                   reportOpen, temporalTransitionData, dataLoading, timeLoading, mounted>>
    /\ Rerender

LoadTimeData == LoadTimeDataFrom(TimeTables)

Next ==
    \/ Mount
    \/ LoadData
    \/ LoadTimeData
    \/ SetActivePersona
    \/ SetActiveScenario
    \/ SetActiveTab
    \/ SetMinConfidence
    \/ SetPolicyIntensity
    \/ SetBudget
    \/ ToggleShowLogic
    \/ SetRankMode

Spec == Init /\ [][Next]_vars

(***************************************************************************)
(* Input domains of the analytics functions.  The functions are pure: a    *)
(* specification below starts the component with one element of a domain   *)
(* in the place of the value the function reads, and Mount applies every   *)
(* function to it.                                                         *)
(***************************************************************************)
\* the only step of a specification below: the first render
NextRender == Mount

\* (from, to) keys of transition records
EvoKeys ==
    << <<"Forest", "Built-up">>, <<"Agriculture", "Built-up">>,
       <<"Water", "Barren">>, <<"Barren", "Built-up">>,
       <<"Forest", "Agriculture">> >>

\* f = (area, confidence) of a record: 120 sq km at 1.00, 1.3 at 0.60, 0 at
\* 0.95
EvoRecords ==
    {TRec(y, EvoKeys[k][1], EvoKeys[k][2], f[1], f[2]) :
        y \in {2020, 2024}, k \in 1..3,
        f \in {<<1200, 100>>, <<13, 60>>, <<0, 95>>}}

\* every list of at most MaxRecs records
EvoInputs == UNION {[1..n -> EvoRecords] : n \in 0..MaxRecs}

InitEvo ==
    /\ data = <<>>
    /\ timeData = <<>>
    /\ policyIntensity = 0
    /\ budget = 5000
    /\ temporalTransitionData \in EvoInputs
    /\ Defaults

SpecEvo == InitEvo /\ [][NextRender]_vars

\* records of the group Forest -> Built-up with areas 0, 1.0, 1.3, 2.0 and
\* 2.1 sq km, which give the ratios 1.3 and 2.0 and ratios on either side of
\* them, and one record of another group
BaselineRecords ==
    {TRec(y, "Forest", "Built-up", a, 90) :
        y \in {2020, 2024}, a \in {0, 10, 13, 20, 21}}
    \cup {TRec(2022, "Water", "Barren", 10, 90)}

BaselineInputs == UNION {[1..n -> BaselineRecords] : n \in 0..MaxRecs}

InitBaseline ==
    /\ data = <<>>
    /\ timeData = <<>>
    /\ policyIntensity = 0
    /\ budget = 5000
    /\ temporalTransitionData \in BaselineInputs
    /\ Defaults

SpecBaseline == InitBaseline /\ [][NextRender]_vars

\* one record per group: the i-th record has the i-th key
SurveyFlows ==
    {<<13, 60>>, <<5, 100>>, <<1200, 100>>, <<1200, 40>>, <<1200, 75>>, <<1200, 45>>,
     <<1200, 10>>}

SurveyInputs ==
    UNION {{[i \in 1..n |-> TRec(2024, EvoKeys[i][1], EvoKeys[i][2],
                                 f[i][1], f[i][2])] :
               f \in [1..n -> SurveyFlows]} : n \in 0..MaxGroups}

BudgetInputs == {-2400, -1200, -1, 0, 1199, 1200, 5000}

InitSurvey ==
    /\ data = <<>>
    /\ timeData = <<>>
    /\ policyIntensity = 0
    /\ budget \in BudgetInputs
    /\ temporalTransitionData \in SurveyInputs
    /\ Defaults

SpecSurvey == InitSurvey /\ [][NextRender]_vars

\* the i-th year of a generated time series: 2018, 2020, ...
YearAt(i) == 2016 + 2 * i

\* Built-up series of up to MaxYears years: 10.0 or 20.0 sq km in the first
\* year, 18.0 or 20.0 in the middle years, one of seven areas in the last
BuiltUpSeries ==
    UNION {{v \in [1..n -> {100, 180, 200, 222, 232, 240, 250, 260, 400}] :
               /\ n >= 1 => v[1] \in {100, 200}
               /\ \A i \in 2..(n - 1) : v[i] \in {180, 200}
               /\ n >= 2 => v[n] \in {100, 222, 232, 240, 250, 260, 400}} :
           n \in 0..MaxYears}

\* lulc_timeseries.csv with one Built-up row per year
BuiltUpTables ==
    {[i \in 1..Len(v) |-> TRow(YearAt(i), "Built-up", v[i], 90)] :
        v \in BuiltUpSeries}

\* Forest area of the last year (the first and middle years have 1000) and
\* Water areas of the first and last year (<<>>: the table has no Water row)
EcoTables ==
    {IF w = <<>>
     THEN [i \in 1..n |->
              TRow(YearAt(i), "Forest", IF i = n THEN f ELSE 1000, 92)]
     ELSE [k \in 1..(2 * n) |->
              LET i == (k + 1) \div 2
              IN IF k % 2 = 1
                 THEN TRow(YearAt(i), "Forest", IF i = n THEN f ELSE 1000, 92)
                 ELSE TRow(YearAt(i), "Water", IF i = n THEN w[2] ELSE w[1], 80)] :
        n \in 2..MaxYears,
        f \in {750, 800, 850, 900, 950, 1000, 1010, 1020},
        w \in {<<>>, <<50, 50>>, <<50, 0>>, <<0, 10>>}}

\* Built-up confidences by year, in hundredths; 0 is a row with confidence
\* 0 and -1 a year that has a Forest row but no Built-up row
ConfSeries ==
    { <<>>, <<90>>, <<90, 0>>, <<0, 0, 0>>, <<-1, 90>>, <<90, -1, 91>>,
      <<90, 91, 89>>, <<60, 85, 95>>, <<80, 100>>, <<79, 100>>, <<85, 95>>,
      <<84, 95>>, <<90, 0, 90>>, <<70, 0, 92, 81>>, <<50, 100>>,
      <<81, 92, 86>> }

ConfTables ==
    {[i \in 1..Len(c) |->
         IF c[i] = -1 THEN TRow(YearAt(i), "Forest", 1000, 92)
         ELSE TRow(YearAt(i), "Built-up", 200, c[i])] : c \in ConfSeries}

\* tables whose rows are not in year order, repeat a year for several
\* classes, lack a (year, class) point, or have years with different
\* numbers of digits
YearAxisTables ==
    { << TRow(2020, "Built-up", 180, 91), TRow(2018, "Built-up", 100, 90),
         TRow(2018, "Forest", 1000, 92), TRow(2020, "Water", 50, 80) >>,
      << TRow(2018, "Built-up", 100, 90), TRow(900, "Built-up", 50, 90) >>,
      << TRow(999, "Forest", 1000, 92), TRow(1000, "Forest", 950, 92),
         TRow(1001, "Forest", 900, 92) >>,
      << TRow(98, "Built-up", 100, 90), TRow(99, "Built-up", 180, 91),
         TRow(102, "Built-up", 200, 89), TRow(99, "Water", 50, 80) >> }

SeriesIntensities == {0, 40, 100}

InitSeries ==
    /\ data = <<>>
    /\ timeData \in BuiltUpTables \cup EcoTables \cup ConfTables \cup YearAxisTables
    /\ policyIntensity \in SeriesIntensities
    /\ budget = 5000
    /\ temporalTransitionData = MockTransitionData
    /\ Defaults

SpecSeries == InitSeries /\ [][NextRender]_vars

\* the component while its two tables load, lulc_timeseries.csv being any
\* of the tables above: none to MaxYears years
LoadTables == BuiltUpTables \cup EcoTables \cup ConfTables \cup YearAxisTables

NextLoad == Mount \/ LoadData \/ LoadTimeDataFrom(LoadTables)

SpecLoad == Init /\ [][NextLoad]_vars

\* transition records for the narrative: three keys, of which Water ->
\* Barren passes no persona filter, and flows of cpri 0.75, 1.00 and 0.11
NarrativeRecords ==
    {TRec(2024, EvoKeys[k][1], EvoKeys[k][2], f[1], f[2]) :
        k \in 1..3, f \in {<<1200, 75>>, <<1200, 100>>, <<13, 60>>}}

NarrativeInputs == UNION {[1..n -> NarrativeRecords] : n \in 0..MaxGroups}

InitNarrative ==
    /\ data = <<>>
    /\ timeData = <<>>
    /\ policyIntensity = 0
    /\ budget = 5000
    /\ temporalTransitionData \in NarrativeInputs
    /\ activePersona \in Personas
    /\ activeScenario = "all"
    /\ activeTab = "dashboard"
    /\ minConfidence = 0
    /\ showLogic = FALSE
    /\ rankMode = "impact"
    /\ reportOpen = FALSE
    /\ dataLoading = FALSE
    /\ timeLoading = FALSE
    /\ mounted = FALSE
    /\ out = NoRender

SpecNarrative == InitNarrative /\ [][NextRender]_vars

\* texts keyed into the budget field: not a number, the multiples of 100
\* from -1200 to 6000, and the integers next to a multiple of the site cost
BudgetKeyedWide ==
    {NaN} \cup {ParsedInt(100 * k) : k \in -12..60}
          \cup {ParsedInt(-1), ParsedInt(1199), ParsedInt(2399)}

\* the component under budget-input events only
NextBudget == Mount \/ SetBudgetFrom(BudgetKeyedWide)

SpecBudget == Init /\ [][NextBudget]_vars

\* transition records whose baseline or latest area is 0, next to the
\* built-in dataset
DivisionRecords ==
    { MockTransitionData,
      << TRec(2020, "Forest", "Built-up", 0, 90), TRec(2024, "Forest", "Built-up", 13, 90) >>,
      << TRec(2020, "Forest", "Built-up", 0, 90), TRec(2024, "Forest", "Built-up", 0, 90) >>,
      << TRec(2020, "Forest", "Built-up", 13, 90), TRec(2024, "Forest", "Built-up", 0, 90) >>,
      << TRec(2024, "Water", "Barren", 0, 90) >> }

\* every division of the engine: the time-series functions on any of the
\* tables above, the transition analysis on the records above
InitDivision ==
    /\ data = <<>>
    /\ timeData \in LoadTables
    /\ policyIntensity \in SeriesIntensities
    /\ budget = 5000
    /\ temporalTransitionData \in DivisionRecords
    /\ Defaults

SpecDivision == InitDivision /\ [][NextRender]_vars

\* rows of transition_data.csv: Forest and both spellings of the water
\* class as origin, confidence on and around 0.80 and 0.60, two
\* Agriculture -> Built-up rows of 3.0 + 2.0 = 5.0 sq km, equal areas (3.0) and
\* equal confidences (0.90) in different rows
TableRows ==
    { DRow(2024, "Forest", "Built-up", 142, 88),
      DRow(2024, "Forest", "Built-up", 100, 80),
      DRow(2024, "Water", "Barren", 13, 90),
      DRow(2024, "Water Body", "Built-up", 24, 90),
      DRow(2024, "Agriculture", "Built-up", 30, 84),
      DRow(2024, "Agriculture", "Built-up", 20, 55),
      DRow(2024, "Forest", "Agriculture", 30, 58) }

\* a table on which rules 1, 2 and 3 all fire
AllRulesTable ==
    << DRow(2024, "Forest", "Built-up", 142, 88),
       DRow(2024, "Agriculture", "Built-up", 20, 55),
       DRow(2024, "Agriculture", "Built-up", 20, 55),
       DRow(2024, "Agriculture", "Built-up", 20, 55) >>

\* every table of at most MaxRows rows, and the table above
TableInputs ==
    UNION {[1..n -> TableRows] : n \in 0..MaxRows} \cup {AllRulesTable}

\* time series without a BDI alert (empty), with bdi = 1.75 and with bdi = 1.3
BdiTables ==
    {[i \in 1..Len(v) |-> TRow(YearAt(i), "Built-up", v[i], 90)] :
        v \in {<<>>, <<100, 180, 180, 250>>, <<100, 180, 180, 232>>}}

\* the three values of the rank selector
AllRankModes == {"impact", "area", "confidence"}

\* a table with either a time series and the default parameters, or no
\* time series and any persona, rank mode and confidence threshold
InitTable ==
    /\ data \in TableInputs
    /\ \/ /\ timeData \in BdiTables
          /\ activePersona = "policy_maker"
          /\ rankMode = "impact"
          /\ minConfidence = 0
       \/ /\ timeData = <<>>
          /\ activePersona \in Personas
          /\ rankMode \in AllRankModes
          /\ minConfidence \in MinConfidenceInputs
    /\ policyIntensity = 0
    /\ budget = 5000
    /\ temporalTransitionData = MockTransitionData
    /\ activeScenario = "all"
    /\ activeTab = "dashboard"
    /\ showLogic = FALSE
    /\ reportOpen = FALSE
    /\ dataLoading = FALSE
    /\ timeLoading = FALSE
    /\ mounted = FALSE
    /\ out = NoRender

SpecTable == InitTable /\ [][NextRender]_vars

(***************************************************************************)
(* PROPERTIES                                                              *)
(* Areas are in tenths of a sq km and cpri and confidences in hundredths,  *)
(* so cpri 0.45 is 45 and the interval [0,1] is 0..100.                    *)
(***************************************************************************)
\* C1: every transition group produced by analyzeTransitionEvolution from
\* records with area >= 0 and confidence in [0,1] has a cpri in [0,1].
C1_CpriInUnitInterval ==
    mounted =>
        \A i \in 1..Len(out.transitionTrends) :
            /\ out.transitionTrends[i].cpri >= 0
            /\ out.transitionTrends[i].cpri <= 100

\* a group whose latest flow is large enough for the cap on the normalized
\* impact to apply (log10(121) / 2 > 1) next to a group of cpri 0
C1_Witness ==
    /\ mounted
    /\ \E i \in 1..Len(out.transitionTrends) :
          /\ out.transitionTrends[i].latestFlow = 1200
          /\ out.transitionTrends[i].cpri = 100
    /\ \E i \in 1..Len(out.transitionTrends) : out.transitionTrends[i].cpri = 0

\* C2: the list returned by analyzeTransitionEvolution is sorted
\* non-increasing by cpri, and two groups of equal cpri appear in the order
\* in which their (from,to) key first appears in the input records.
C2_SortedByCpriStable ==
    mounted =>
        LET t == out.transitionTrends
            recs == temporalTransitionData
            first(key) == CHOOSE k \in 1..Len(recs) :
                              /\ <<recs[k].from, recs[k].to>> = key
                              /\ \A j \in 1..(k - 1) :
                                    <<recs[j].from, recs[j].to>> # key
        IN \A i, j \in 1..Len(t) :
              i < j => /\ t[i].cpri >= t[j].cpri
                       /\ t[i].cpri = t[j].cpri
                             => first(t[i].transition) < first(t[j].transition)

\* three groups: the one whose key appears last in the input is ranked
\* first, the other two tie and keep their order of appearance
C2_Witness ==
    /\ mounted
    /\ Len(out.transitionTrends) = 3
    /\ out.transitionTrends[1].cpri > out.transitionTrends[2].cpri
    /\ out.transitionTrends[2].cpri = out.transitionTrends[3].cpri
    /\ out.transitionTrends[1].transition =
           <<temporalTransitionData[3].from, temporalTransitionData[3].to>>
    /\ out.transitionTrends[2].transition =
           <<temporalTransitionData[1].from, temporalTransitionData[1].to>>

C4_AllocationPartition ==
    mounted =>
        LET t == out.transitionTrends
            o == out.optimizedSurveys
            candidates == {i \in 1..Len(t) : t[i].cpri < 45}
        IN /\ Len(o.selected) + o.deferredCount = Cardinality(candidates)
           /\ o.totalCost = Len(o.selected) * surveyCostPerSite
           /\ \A i \in 1..Len(o.selected) :
                 \E c \in candidates : t[c].transition = o.selected[i].id
           /\ \A i, j \in 1..Len(o.selected) :
                 o.selected[i].id = o.selected[j].id => i = j

\* three candidates and a budget for one site: one selected, two deferred
C4_Witness ==
    /\ mounted
    /\ budget = 1200
    /\ Len(out.optimizedSurveys.selected) = 1
    /\ out.optimizedSurveys.deferredCount = 2

C6_BaselineProjection ==
    mounted /\ policyIntensity = 0 /\ Len(out.years) >= 3 =>
        LET b == out.builtUpTrend
            y == out.years
            n == Len(y)
            inc == Rat(2 * (b[n] - b[n - 2]), y[n] - y[n - 2])
        IN /\ out.futureProj # Null
           /\ LET p == out.futureProj[1]
              IN /\ p.increase = RRound(inc, 1)
                 /\ p.projectedArea = RRound(RAdd(RInt(b[n]), inc), 1)
                 /\ p.reduction = Null
                 /\ p.savedArea = Null

\* Built-up 18.0 -> 25.0 sq km over the last 4 years: 3.5 sq km in 2 years
C6_Witness ==
    /\ mounted
    /\ policyIntensity = 0
    /\ Len(out.years) = 4
    /\ out.builtUpTrend[2] = 180
    /\ out.builtUpTrend[4] = 250
    /\ out.futureProj # Null
    /\ out.futureProj[1].increase = 35
    /\ out.futureProj[1].projectedArea = 285
    /\ out.futureProj[1].savedArea = Null

\* C7: with at least 2 distinct years, totalEcoLoss =
\* (forest[0] - forest[last]) + (water[0] - water[last]) is classified
\* > 20 Rapid Degradation, > 5 Declining, < -1 Recovering, otherwise Stable
\* (so 20 is Declining and 5 and -1 are Stable).
C7_EcoRiskBands ==
    mounted /\ Len(out.years) >= 2 =>
        LET f == out.forestTrend
            w == out.waterTrend
            totalEcoLoss == (f[1] - f[Len(f)]) + (w[1] - w[Len(w)])
        IN /\ out.ecoRisk # Null
           /\ out.ecoRisk[1].trend =
                 IF totalEcoLoss > 200 THEN "Rapid Degradation"
                 ELSE IF totalEcoLoss > 50 THEN "Declining"
                 ELSE IF totalEcoLoss < -10 THEN "Recovering"
                 ELSE "Stable"

\* the boundary 20 sq km, 15 of forest and 5 of water, is Declining
C7_Witness ==
    /\ mounted
    /\ Len(out.years) >= 2
    /\ out.forestTrend[1] - out.forestTrend[Len(out.forestTrend)] = 150
    /\ out.waterTrend[1] - out.waterTrend[Len(out.waterTrend)] = 50
    /\ out.ecoRisk # Null
    /\ out.ecoRisk[1].trend = "Declining"

\* C8: with a Built-up trend of at least 4 years, baselineRate =
\* (v[n-2]-v[0])/(y[n-2]-y[0]), recentRate = (v[n-1]-v[n-2])/(y[n-1]-y[n-2])
\* and bdi = recentRate/baselineRate (0 when baselineRate = 0), there is
\* exactly one high alert 'Abnormal Growth Spike' when bdi > 1.5, exactly one
\* medium alert 'Growth Acceleration' when 1.2 < bdi <= 1.5, and no BDI alert
\* otherwise; with fewer than 4 years there is never a BDI alert.
C8_BdiAlerts ==
    mounted =>
        LET v == out.builtUpTrend
            y == out.years
            n == Len(v)
            IsBdi(a) == a.title \in {"Abnormal Growth Spike", "Growth Acceleration"}
            bdiAlerts == SelectSeq(out.governanceAlerts, IsBdi)
            baselineRate == Rat(v[n - 1] - v[1], y[n - 1] - y[1])
            recentRate == Rat(v[n] - v[n - 1], y[n] - y[n - 1])
            bdi == IF baselineRate = RInt(0) THEN RInt(0)
                   ELSE RDiv(recentRate, baselineRate)
        IN IF n < 4 THEN bdiAlerts = <<>>
           ELSE IF RGt(bdi, Rat(3, 2))
           THEN /\ Len(bdiAlerts) = 1
                /\ bdiAlerts[1].type = "high"
                /\ bdiAlerts[1].title = "Abnormal Growth Spike"
           ELSE IF RGt(bdi, Rat(6, 5))
           THEN /\ Len(bdiAlerts) = 1
                /\ bdiAlerts[1].type = "medium"
                /\ bdiAlerts[1].title = "Growth Acceleration"
           ELSE bdiAlerts = <<>>

\* baseline rate 2.0 and recent rate 3.0 sq km a year: bdi is exactly 1.5,
\* which is the medium alert
C8_Witness ==
    /\ mounted
    /\ Len(out.builtUpTrend) = 4
    /\ out.builtUpTrend[1] = 100
    /\ out.builtUpTrend[3] = 180
    /\ out.builtUpTrend[4] = 240
    /\ Len(out.governanceAlerts) = 1
    /\ out.governanceAlerts[1].title = "Growth Acceleration"

\* C9: two recomputations with identical records, time series and
\* parameters (persona, scenario, minConfidence, policyIntensity, budget,
\* rankMode) produce identical outputs, except for the random id of each
\* recommended action: a render that follows a render with the same inputs
\* differs from it in those ids at most.
C9_DeterministicRecomputation ==
    [][LET inputs == <<data, timeData, temporalTransitionData, activePersona,
                       activeScenario, minConfidence, policyIntensity,
                       budget, rankMode>>
           StripIds(o) ==
               [o EXCEPT !.recommendedActions =
                   [i \in 1..Len(o.recommendedActions) |->
                       [o.recommendedActions[i] EXCEPT !.id = 0]]]
       IN mounted /\ inputs' = inputs => StripIds(out') = StripIds(out)]_vars

\* both tables are loaded, the logic view has been toggled, and a second
\* computation from the same state that draws the other random values
\* differs from the rendered output, in the ids of the recommendations
C9_Witness ==
    /\ mounted /\ ~dataLoading /\ ~timeLoading
    /\ showLogic
    /\ \E rand \in RandomStreams : \E again \in {Render(St, rand)} :
             /\ again # out
             /\ Len(again.recommendedActions) = 3
             /\ \A i \in 1..3 :
                   /\ again.recommendedActions[i].id # out.recommendedActions[i].id
                   /\ [again.recommendedActions[i] EXCEPT !.id = 0] =
                      [out.recommendedActions[i] EXCEPT !.id = 0]
             /\ [again EXCEPT !.recommendedActions = <<>>] =
                [out EXCEPT !.recommendedActions = <<>>]

C12_PersonaChangesNoMetric ==
    [][LET others == <<data, timeData, temporalTransitionData, activeScenario,
                       minConfidence, policyIntensity, budget, rankMode>>
           Metrics(o) ==
               [transitionTrends |-> o.transitionTrends,
                ecoRisk |-> o.ecoRisk,
                policyEval |-> o.policyEval,
                futureProj |-> o.futureProj,
                trustScore |-> o.trustScore,
                urbanStability |-> o.urbanStability,
                optimizedSurveys |-> o.optimizedSurveys,
                filteredData |-> o.filteredData,
                alerts |-> [i \in 1..Len(o.governanceAlerts) |->
                               [type |-> o.governanceAlerts[i].type,
                                items |-> o.governanceAlerts[i].items]]]
       IN (mounted /\ activePersona' # activePersona /\ others' = others)
              => Metrics(out') = Metrics(out)]_vars

\* the persona has been changed with both tables loaded: alerts are
\* present, and the impact ranking and the recommendations are not those of
\* the default persona
C12_Witness ==
    /\ mounted /\ ~dataLoading /\ ~timeLoading
    /\ activePersona # "policy_maker"
    /\ Len(out.governanceAlerts) >= 2
    /\ out.prioritizedData # prioritizedData(out.filteredData, "policy_maker")
    /\ TargetedTrends(out.transitionTrends, activePersona) # out.transitionTrends
    /\ out.narrative # generateChangeNarrative(out.transitionTrends, "policy_maker")

C14_EcologicalAlert ==
    mounted =>
        LET recs == out.filteredData
            eco == FilterSeq(recs, [i \in 1..Len(recs) |->
                       /\ recs[i].from \in {"Forest", "Water"}
                       /\ recs[i].to \in {"Built-up", "Barren"}
                       /\ recs[i].confidence > 80])
            alerts == out.governanceAlerts
            ecoAlerts == FilterSeq(alerts, [i \in 1..Len(alerts) |->
                             alerts[i].title \in {"Critical Ecosystem Loss",
                                                  "Ecological Risk"}])
        IN IF eco # <<>>
           THEN /\ Len(ecoAlerts) = 1
                /\ ecoAlerts[1].type = "high"
                /\ ecoAlerts[1].items = eco
           ELSE ecoAlerts = <<>>

\* C15: the alert list holds, in this order and each independently of the
\* others: the ecological alert (high) iff some record has origin Forest or
\* Water, destination Built-up or Barren and confidence > 0.80; the sprawl
\* alert (medium) iff the Agriculture -> Built-up areas sum to more than 5;
\* the data-gap alert (low) iff more than 2 records have confidence < 0.60;
\* the BDI alert iff the series has at least 4 years and bdi > 1.2 (high
\* above 1.5, medium otherwise).  It never holds more than 4 alerts and is
\* empty when no condition holds.
C15_RulesFireIndependently ==
    mounted =>
        LET recs == out.filteredData
            eco == \E i \in 1..Len(recs) :
                       /\ recs[i].from \in {"Forest", "Water"}
                       /\ recs[i].to \in {"Built-up", "Barren"}
                       /\ recs[i].confidence > 80
            sprawl == SumSeq([i \in 1..Len(recs) |->
                          IF recs[i].from = "Agriculture" /\ recs[i].to = "Built-up"
                          THEN recs[i].area_sq_km ELSE 0]) > 50
            gap == Cardinality({i \in 1..Len(recs) : recs[i].confidence < 60}) > 2
            band == IF Len(out.builtUpTrend) >= 4
                    THEN BdiBand(Bdi(out.builtUpTrend, out.years).bdi)
                    ELSE "none"
            expected ==
                (IF eco THEN << <<"high", "ecological">> >> ELSE <<>>)
                \o (IF sprawl THEN << <<"medium", "sprawl">> >> ELSE <<>>)
                \o (IF gap THEN << <<"low", "data gap">> >> ELSE <<>>)
                \o (IF band # "none" THEN << <<band, "bdi">> >> ELSE <<>>)
            Kind(a) ==
                IF a.title \in {"Critical Ecosystem Loss", "Ecological Risk"}
                  THEN "ecological"
                ELSE IF a.title \in {"Unplanned Sprawl Detected", "Urban Sprawl Alert"}
                  THEN "sprawl"
                ELSE IF a.title = "Data Gap Identified" THEN "data gap"
                ELSE "bdi"
            alerts == out.governanceAlerts
        IN /\ Len(alerts) <= 4
           /\ [i \in 1..Len(alerts) |-> <<alerts[i].type, Kind(alerts[i])>>] = expected

\* C16: the recommendations are made, in order, from the first min(3, n)
\* entries of the stable partition of the n CPRI-ranked evolutions that puts
\* first the Built-up-destination evolutions for the urban planner, the
\* Forest-origin or Water-origin evolutions for the environmental officer,
\* and changes nothing for the policy maker; no evolutions, no
\* recommendations.
C16_PersonaStablePartition ==
    mounted =>
        LET trends == out.transitionTrends
            Front(t) ==
                IF activePersona = "urban_planner" THEN t.transition[2] = "Built-up"
                ELSE IF activePersona = "environmental_officer"
                THEN t.transition[1] \in {"Forest", "Water"}
                ELSE TRUE
            partition ==
                FilterSeq(trends, [i \in 1..Len(trends) |-> Front(trends[i])])
                \o FilterSeq(trends, [i \in 1..Len(trends) |-> ~Front(trends[i])])
            k == IF Len(trends) < 3 THEN Len(trends) ELSE 3
            recs == out.recommendedActions
        IN /\ Len(recs) = k
           /\ \A i \in 1..k :
                 /\ recs[i].details =
                        <<partition[i].transition[1], partition[i].transition[2],
                          partition[i].latestFlow>>
                 /\ recs[i].readiness = partition[i].cpri

\* C17: every recommendation has urgency 'Immediate' iff the cpri of its
\* evolution is >= 0.75, 'High' iff it is in [0.45, 0.75) and 'Critical' iff
\* it is < 0.45, never 'Medium' or 'General'; an Immediate recommendation
\* goes to Environment Dept for Forest origin, else to Urban Planning for
\* Built-up destination, else to Revenue Dept; and the audit trail has
\* three entries (inputs, computed CPRI, decision rule), the last naming the
\* band of the urgency.
C17_UrgencyBandsAndAudit ==
    mounted =>
        \A i \in 1..Len(out.recommendedActions) :
            LET r == out.recommendedActions[i]
                e == CHOOSE t \in Range(out.transitionTrends) :
                         t.transition = <<r.details[1], r.details[2]>>
            IN /\ r.urgency = "Immediate" <=> e.cpri >= 75
               /\ r.urgency = "High" <=> (e.cpri >= 45 /\ e.cpri < 75)
               /\ r.urgency = "Critical" <=> e.cpri < 45
               /\ r.urgency # "Medium" /\ r.dept # "General"
               /\ r.urgency = "Immediate" =>
                      r.dept = (IF r.details[1] = "Forest" THEN "Environment Dept"
                                ELSE IF r.details[2] = "Built-up" THEN "Urban Planning"
                                ELSE "Revenue Dept")
               /\ Len(r.logic) = 3
               /\ r.logic[1].label = "1. Data Inputs"
               /\ r.logic[2].label = "2. Calculated CPRI"
               /\ r.logic[2].value = <<e.cpri>>
               /\ r.logic[3].label = "3. Decision Rule"
               /\ r.logic[3].value =
                      (IF r.urgency = "Immediate"
                         THEN <<"Score >= 0.75 -> Auto-Route to Dept">>
                       ELSE IF r.urgency = "High"
                         THEN <<"Score >= 0.45 -> Committee Review">>
                       ELSE <<"Score < 0.45 -> Field Validation">>)

\* three recommendations, one in each band, the first two with cpri exactly
\* 0.75 and 0.45, the Immediate one routed to Urban Planning
C17_Witness ==
    /\ mounted
    /\ Len(out.recommendedActions) = 3
    /\ out.recommendedActions[1].readiness = 75
    /\ out.recommendedActions[1].urgency = "Immediate"
    /\ out.recommendedActions[1].dept = "Urban Planning"
    /\ out.recommendedActions[2].readiness = 45
    /\ out.recommendedActions[2].urgency = "High"
    /\ out.recommendedActions[3].urgency = "Critical"

\* C18: rankedData holds exactly the filtered records, each once per
\* occurrence, each with weight = the persona weight of its (from, to) and
\* impactScore = area x confidence x weight rounded to one decimal; it is
\* in non-increasing order of impactScore in mode 'impact', of area in mode
\* 'area' and of confidence in mode 'confidence'; and the three modes rank
\* the same scored records.
C18_RankedData ==
    mounted =>
        LET f == out.filteredData
            r == out.rankedData
            scored == [i \in 1..Len(f) |->
                LET w == getPolicyWeight(activePersona, f[i].from, f[i].to)
                IN [year |-> f[i].year, from |-> f[i].from, to |-> f[i].to,
                    area_sq_km |-> f[i].area_sq_km, confidence |-> f[i].confidence,
                    weight |-> w,
                    impactScore |->
                        RoundDiv(f[i].area_sq_km * f[i].confidence * w, 1000)]]
            Count(q, x) == Cardinality({i \in 1..Len(q) : q[i] = x})
            SameRecords(q) ==
                /\ Len(q) = Len(scored)
                /\ \A x \in Range(q) \cup Range(scored) : Count(q, x) = Count(scored, x)
            Key(d) == IF rankMode = "area" THEN d.area_sq_km
                      ELSE IF rankMode = "confidence" THEN d.confidence
                      ELSE d.impactScore
        IN /\ SameRecords(r)
           /\ \A i \in 1..Len(r) : \A j \in (i + 1)..Len(r) : Key(r[i]) >= Key(r[j])
           /\ \A m \in AllRankModes : SameRecords(getRankedData(out.prioritizedData, m))

\* ranking by area with a persona weighting and an active confidence filter:
\* a row is filtered out, the area order differs from the impact order, and
\* two ranked rows have the same area
C18_Witness ==
    /\ mounted
    /\ rankMode = "area"
    /\ activePersona = "environmental_officer"
    /\ Len(out.filteredData) < Len(data)
    /\ Len(out.rankedData) = 2
    /\ out.rankedData # out.prioritizedData
    /\ \E k \in 1..Len(out.prioritizedData) :
          out.prioritizedData[k].weight = 30

\* C19: for a budget >= 0 the selected survey tasks are the first
\* floor(budget / 1200) of the evolutions with cpri < 0.45 in order of
\* latest flow, largest first: every selected task is such an evolution,
\* none has cpri >= 0.45, and no deferred candidate has a larger latest
\* flow than a selected task.
C19_SelectionByFlow ==
    (mounted /\ budget >= 0) =>
        LET trends == out.transitionTrends
            sel == out.optimizedSurveys.selected
            cands == {t \in Range(trends) : t.cpri < 45}
            selected == {t \in Range(trends) :
                            \E i \in 1..Len(sel) : sel[i].id = t.transition}
            m == budget \div surveyCostPerSite
        IN /\ Len(sel) = (IF m < Cardinality(cands) THEN m ELSE Cardinality(cands))
           /\ Cardinality(selected) = Len(sel)
           /\ selected \subseteq cands
           /\ \A t \in selected : t.cpri < 45
           /\ \A i \in 1..Len(sel) : \A j \in (i + 1)..Len(sel) :
                  sel[i].area_sq_km >= sel[j].area_sq_km
           /\ \A i \in 1..Len(sel) : \A t \in cands \ selected :
                  sel[i].area_sq_km >= t.latestFlow

\* a budget for one site and two candidates: the one selected has the larger
\* flow and the smaller cpri, the other is deferred
C19_Witness ==
    /\ mounted
    /\ budget = 1200
    /\ Len(out.optimizedSurveys.selected) = 1
    /\ out.optimizedSurveys.deferredCount = 1
    /\ \E t \in Range(out.transitionTrends) :
          /\ t.cpri < 45
          /\ t.transition # out.optimizedSurveys.selected[1].id
          /\ t.latestFlow < out.optimizedSurveys.selected[1].area_sq_km
          /\ \E u \in Range(out.transitionTrends) :
                /\ u.transition = out.optimizedSurveys.selected[1].id
                /\ u.cpri < t.cpri

\* C20: the year axis holds each year of the time-series table once, in
\* ascending numeric order, and the Built-up, Forest and Water trends have
\* one entry per year of the axis: the area of the (year, class) row, or 0
\* when the table has no such row.
C20_YearAxisNumericOrder ==
    mounted =>
        LET ys == out.years
            Y == {timeData[k].year : k \in 1..Len(timeData)}
            Point(y, cls) == {k \in 1..Len(timeData) :
                                 timeData[k].year = y /\ timeData[k].lulc_class = cls}
            TrendOk(trend, cls) ==
                /\ Len(trend) = Len(ys)
                /\ \A i \in 1..Len(ys) :
                      IF Point(ys[i], cls) = {} THEN trend[i] = 0
                      ELSE \E k \in Point(ys[i], cls) : trend[i] = timeData[k].area_sq_km
        IN /\ Range(ys) = Y
           /\ Len(ys) = Cardinality(Y)
           /\ \A i \in 1..Len(ys) : \A j \in (i + 1)..Len(ys) : ys[i] < ys[j]
           /\ TrendOk(out.builtUpTrend, "Built-up")
           /\ TrendOk(out.forestTrend, "Forest")
           /\ TrendOk(out.waterTrend, "Water")

\* C21: for each (from,to) group the history is the group's records by year
\* ascending, equal years in input order; the baseline is the mean area of
\* all records but the latest, or the latest area for a single record; the
\* deviation ratio is latest / baseline, or 1.0 when the baseline is 0, and
\* is never negative; the anomaly is Surge iff ratio > 2.0, Elevated iff
\* 1.3 < ratio <= 2.0, else Normal; a single-record group is Normal and
\* Stable.
C21_BaselineDeviation ==
    mounted =>
        \A e \in 1..Len(out.transitionTrends) :
            LET ev == out.transitionTrends[e]
                recs == temporalTransitionData
                h == ev.history
                n == Len(h)
                latest == h[n].area
                \* baseline = bNum / bDen
                bNum == IF n = 1 THEN latest
                        ELSE SumSeq([i \in 1..(n - 1) |-> h[i].area])
                bDen == IF n = 1 THEN 1 ELSE n - 1
                surge == bNum # 0 /\ latest * bDen > 2 * bNum
                elevated == bNum # 0 /\ 10 * latest * bDen > 13 * bNum /\ ~surge
            IN /\ n >= 1
               /\ \E p \in [1..n -> 1..Len(recs)] :
                     /\ \A i \in 1..n : h[i] = recs[p[i]]
                     /\ \A i, j \in 1..n :
                           i < j => \/ recs[p[i]].year < recs[p[j]].year
                                    \/ /\ recs[p[i]].year = recs[p[j]].year
                                       /\ p[i] < p[j]
                     /\ \A k \in 1..Len(recs) :
                           <<recs[k].from, recs[k].to>> = ev.transition
                               => \E i \in 1..n : p[i] = k
               /\ ev.deviationRatio >= 0
               /\ ev.deviationRatio =
                      (IF bNum = 0 THEN 10
                       ELSE (2 * 10 * latest * bDen + bNum) \div (2 * bNum))
               /\ ev.anomaly = "Surge" <=> surge
               /\ ev.anomaly = "Elevated" <=> elevated
               /\ ev.anomaly = "Normal" <=> ~surge /\ ~elevated
               /\ n = 1 => ev.anomaly = "Normal" /\ ev.trend = "Stable"

\* a group given out of year order whose ratio is exactly 1.3 (1.3 sq km
\* over a baseline of 1.0) next to a single-record group
C21_Witness ==
    /\ mounted
    /\ Len(temporalTransitionData) = 3
    /\ temporalTransitionData[1].year = 2024
    /\ temporalTransitionData[2].year = 2020
    /\ \E e \in 1..Len(out.transitionTrends) :
          /\ Len(out.transitionTrends[e].history) = 2
          /\ out.transitionTrends[e].history[2] = temporalTransitionData[1]
          /\ out.transitionTrends[e].deviationRatio = 13
          /\ out.transitionTrends[e].anomaly = "Normal"
    /\ \E e \in 1..Len(out.transitionTrends) :
          Len(out.transitionTrends[e].history) = 1

\* C22: the three consumers of the CPRI bands agree: the readiness label is
\* Ready for Action iff cpri >= 0.75, Policy Review iff 0.45 <= cpri < 0.75,
\* Field Validation iff cpri < 0.45; an evolution is a survey candidate iff
\* its label is Field Validation; a recommendation built for it is Critical
\* iff its label is Field Validation and Immediate iff it is Ready for
\* Action.
C22_BandConsumersAgree ==
    mounted =>
        LET t == out.transitionTrends
            FieldValidation == {i \in 1..Len(t) : t[i].readiness = "Field Validation"}
        IN /\ \A i \in 1..Len(t) :
                 /\ t[i].readiness = "Ready for Action" <=> t[i].cpri >= 75
                 /\ t[i].readiness = "Policy Review"
                        <=> (t[i].cpri >= 45 /\ t[i].cpri < 75)
                 /\ t[i].readiness = "Field Validation" <=> t[i].cpri < 45
           /\ Range(SurveyCandidates(t)) = {t[i] : i \in FieldValidation}
           /\ budget >= Len(t) * surveyCostPerSite =>
                 {out.optimizedSurveys.selected[k].id :
                     k \in 1..Len(out.optimizedSurveys.selected)}
                 = {t[i].transition : i \in FieldValidation}
           /\ \A k \in 1..Len(out.recommendedActions) :
                 LET r == out.recommendedActions[k]
                     e == CHOOSE x \in Range(t) :
                              x.transition = <<r.details[1], r.details[2]>>
                 IN /\ r.urgency = "Critical" <=> e.readiness = "Field Validation"
                    /\ r.urgency = "Immediate" <=> e.readiness = "Ready for Action"

\* cpri exactly 0.75, exactly 0.45 and below 0.45: only the third is a
\* survey candidate, and it is selected
C22_Witness ==
    /\ mounted
    /\ budget = 5000
    /\ Len(out.transitionTrends) = 3
    /\ out.transitionTrends[1].cpri = 75
    /\ out.transitionTrends[1].readiness = "Ready for Action"
    /\ out.transitionTrends[2].cpri = 45
    /\ out.transitionTrends[2].readiness = "Policy Review"
    /\ out.transitionTrends[3].readiness = "Field Validation"
    /\ Len(out.optimizedSurveys.selected) = 1
    /\ out.optimizedSurveys.selected[1].id = out.transitionTrends[3].transition
    /\ out.recommendedActions[3].urgency = "Critical"

\* C23: whenever the time series has fewer distinct years than a
\* component's minimum, the component returns its sentinel: eco-risk null
\* below 2 years, policy evaluation null below 4, projection null below 3,
\* anomaly list empty below 3, velocity metrics {0, 0, Stable} below 3
\* points, trust score {0, Low} below 2, no BDI alert below 4; in every
\* state reached while the two tables load, in either completion order.
C23_SentinelsWhileLoading ==
    mounted =>
        LET n == Len(out.years)
        IN /\ n < 2 => out.ecoRisk = Null
           /\ n < 4 => out.policyEval = Null
           /\ n < 3 => out.futureProj = Null
           /\ n < 3 => out.temporalAnomalies = <<>>
           /\ Len(out.builtUpTrend) < 3 =>
                 out.urbanMetrics = [velocity |-> 0, acceleration |-> 0,
                                     status |-> "Stable"]
           /\ n < 2 => out.trustScore = [score |-> 0, level |-> "Low"]
           /\ n < 4 => \A k \in 1..Len(out.governanceAlerts) :
                          out.governanceAlerts[k].title
                              \notin {"Abnormal Growth Spike", "Growth Acceleration"}

\* the time series arrived first, with two years of Built-up growth of more
\* than 10 sq km: the eco-risk and the trust score are computed, the other
\* components return their sentinels
C23_Witness ==
    /\ mounted /\ dataLoading /\ ~timeLoading
    /\ Len(out.years) = 2
    /\ out.builtUpTrend[2] - out.builtUpTrend[1] > 100
    /\ out.ecoRisk # Null
    /\ out.trustScore.score > 0
    /\ out.futureProj = Null
    /\ out.temporalAnomalies = <<>>

\* C24: for numeric inputs that pass the minimum-data guards no output is
\* NaN or infinite: the divisions by a time span (policy rates, projection
\* rate, velocity, BDI rates) and by a baseline (deviation ratio, forest and
\* water loss percentage, BDI) are guarded or have a non-zero divisor.
C24_NoDivisionByZero ==
    mounted =>
        LET Finite(x) == x \notin NonFiniteTexts
            n == Len(out.years)
        IN /\ out.ecoRisk # Null =>
                 /\ Finite(out.ecoRisk[1].forestLossPct)
                 /\ Finite(out.ecoRisk[1].waterLossPct)
           /\ out.policyEval # Null =>
                 /\ Finite(out.policyEval[1].preRate)
                 /\ Finite(out.policyEval[1].postRate)
           /\ out.futureProj # Null =>
                 /\ out.futureProj[1].projectedUrban[2] # 0
                 /\ out.futureProj[1].projectedIncrease[2] # 0
                 /\ Finite(out.futureProj[1].projectedArea)
                 /\ Finite(out.futureProj[1].increase)
                 /\ out.futureProj[1].savedArea # Null =>
                        Finite(out.futureProj[1].savedArea[1])
           /\ Finite(out.urbanMetrics.velocity)
           /\ Finite(out.urbanMetrics.acceleration)
           /\ Finite(out.trustScore.score)
           /\ n >= 4 =>
                 LET b == Bdi(out.builtUpTrend, out.years)
                 IN b.baselineRate[2] # 0 /\ b.recentRate[2] # 0 /\ b.bdi[2] # 0
           /\ \A k \in 1..Len(out.governanceAlerts) :
                 \A j \in 1..Len(out.governanceAlerts[k].desc) :
                     Finite(out.governanceAlerts[k].desc[j])
           /\ \A e \in 1..Len(out.transitionTrends) :
                 /\ Finite(out.transitionTrends[e].deviationRatio)
                 /\ Finite(out.transitionTrends[e].cpri)

\* every guard passes (four years), the Built-up baseline rate is 0 so that
\* the BDI takes its default, the Forest baseline is positive, and a
\* transition group has a baseline of 0
C24_Witness ==
    /\ mounted
    /\ Len(out.years) = 4
    /\ out.policyEval # Null /\ out.futureProj # Null
    /\ out.builtUpTrend[3] = out.builtUpTrend[1]
    /\ Bdi(out.builtUpTrend, out.years).bdi = RInt(0)
    /\ policyIntensity = 100
    /\ \E e \in 1..Len(out.transitionTrends) :
          /\ out.transitionTrends[e].history[1].area = 0
          /\ out.transitionTrends[e].latestFlow = 13
          /\ out.transitionTrends[e].deviationRatio = 10

\* C25: for policyIntensity i in [0,100] and at least 3 years the projection
\* uses adjustedRate = baselineRate x (1 - (i/100) x 0.60) over 2 years:
\* projectedIncrease = adjustedRate x 2 and targetYear = last year + 2; the
\* risk is Critical iff the increase > 10, High iff 5 < increase <= 10, else
\* Low; savedArea is reported iff i > 0 and is then the unmitigated increase
\* (baselineRate x 2) minus the mitigated one, so that at i = 100 the
\* mitigated increase is 40% of the unmitigated one.
C25_MitigatedProjection ==
    mounted /\ Len(out.years) >= 3 =>
        LET b == out.builtUpTrend
            y == out.years
            n == Len(y)
            i == policyIntensity
            baselineRate == Rat(b[n] - b[n - 2], y[n] - y[n - 2])
            adjustedRate == RMul(baselineRate, RSub(RInt(1), Rat(i * 60, 10000)))
            increase == RMul(adjustedRate, RInt(2))
            unmitigated == RMul(baselineRate, RInt(2))
        IN /\ out.futureProj # Null
           /\ LET p == out.futureProj[1]
              IN /\ p.projectedIncrease = increase
                 /\ p.increase = RRound(increase, 1)
                 /\ p.targetYear = y[n] + 2
                 /\ p.riskLevel = "Critical" <=> RGt(increase, RInt(100))
                 /\ p.riskLevel = "High" <=>
                        (RGt(increase, RInt(50)) /\ ~RGt(increase, RInt(100)))
                 /\ p.riskLevel = "Low" <=> ~RGt(increase, RInt(50))
                 /\ p.savedArea # Null <=> i > 0
                 /\ i > 0 => p.savedArea[1] = RRound(RSub(unmitigated, increase), 1)
                 /\ i = 100 => increase = RMul(unmitigated, Rat(40, 100))

\* C26: in every state reached from the initial state (budget 5000) by
\* budget-input events the budget is a non-negative integer, and the survey
\* allocation has totalCost <= budget and
\* 0 <= selected.length <= maxPossible = floor(budget / 1200).
C26_BudgetNonNegative ==
    /\ budget \in Nat
    /\ mounted =>
          LET o == out.optimizedSurveys
          IN /\ o.totalCost <= budget
             /\ 0 <= Len(o.selected)
             /\ Len(o.selected) <= o.maxPossible
             /\ o.maxPossible = budget \div surveyCostPerSite

\* a budget of 1199 keyed in: no site is affordable and the two candidates
\* of the built-in dataset are deferred
C26_Witness ==
    /\ mounted
    /\ budget = 1199
    /\ out.optimizedSurveys.maxPossible = 0
    /\ out.optimizedSurveys.selected = <<>>
    /\ out.optimizedSurveys.deferredCount = 2
    /\ out.optimizedSurveys.totalCost = 0

\* C27: governance alerts are evaluated on the filtered records: every
\* record listed in an alert is a record of the table with confidence >=
\* minConfidence that passes the active scenario filter; with minConfidence
\* >= 0.60 the data-gap alert is never present; and raising minConfidence
\* adds no record to the filtered set.
C27_AlertsOnFilteredRecords ==
    /\ [](mounted =>
            /\ \A k \in 1..Len(out.governanceAlerts) :
                  \A j \in 1..Len(out.governanceAlerts[k].items) :
                      LET d == out.governanceAlerts[k].items[j]
                      IN /\ d \in Range(data)
                         /\ d.confidence >= minConfidence
                         /\ activeScenario = "urban" => d.to = "Built-up"
                         /\ activeScenario = "eco" =>
                                /\ d.from \in {"Forest", "Water Body"}
                                /\ d.to \in {"Built-up", "Barren"}
            /\ minConfidence >= 60 =>
                  \A k \in 1..Len(out.governanceAlerts) :
                      out.governanceAlerts[k].title # "Data Gap Identified")
    /\ [][(/\ mounted
           /\ minConfidence' > minConfidence
           /\ data' = data
           /\ activeScenario' = activeScenario)
          => \A d \in Range(out'.filteredData) :
                Cardinality({i \in 1..Len(out'.filteredData) : out'.filteredData[i] = d})
                <= Cardinality({i \in 1..Len(out.filteredData) : out.filteredData[i] = d})]_vars

\* the table holds three records below 0.60 and the threshold is 0.60: the
\* ecological alert lists its records, the data-gap alert is absent
C27_Witness ==
    /\ mounted
    /\ minConfidence = 60
    /\ activeScenario = "all"
    /\ Cardinality({i \in 1..Len(data) : data[i].confidence < 60}) >= 3
    /\ Len(out.filteredData) > 0
    /\ Len(out.filteredData) < Len(data)
    /\ \E k \in 1..Len(out.governanceAlerts) :
          Len(out.governanceAlerts[k].items) > 0

\* C28: a change of the scenario filter, of the minimum-confidence
\* threshold, of the rank mode or of the loaded transition-record table (any
\* step that keeps the built-in dataset, the persona and the budget) leaves
\* the ranked evolutions, the recommended actions apart from their random
\* id, the narrative and the survey allocation unchanged.
C28_EvolutionOutputsFrame ==
    [][LET sources == <<temporalTransitionData, activePersona, budget>>
           WithoutId(r) == [details |-> r.details, action |-> r.action,
                            urgency |-> r.urgency, dept |-> r.dept,
                            readiness |-> r.readiness, logic |-> r.logic]
           Outputs(o) ==
               [transitionTrends |-> o.transitionTrends,
                recommendedActions |->
                    [i \in 1..Len(o.recommendedActions) |->
                        WithoutId(o.recommendedActions[i])],
                narrative |-> o.narrative,
                optimizedSurveys |-> o.optimizedSurveys]
       IN (mounted /\ sources' = sources) => Outputs(out') = Outputs(out)]_vars

\* the table is loaded and the scenario, the threshold and the rank mode
\* have all been changed: the filtered records are fewer than the table's,
\* the evolutions and the three recommendations are there
C28_Witness ==
    /\ mounted /\ ~dataLoading
    /\ activeScenario = "eco"
    /\ minConfidence = 60
    /\ rankMode = "confidence"
    /\ Len(out.filteredData) > 0
    /\ Len(out.filteredData) < Len(data)
    /\ Len(out.transitionTrends) = 3
    /\ Len(out.recommendedActions) = 3
    /\ Len(out.optimizedSurveys.selected) = 2

C30_BdiAlertOnlyOnGrowth ==
    mounted =>
        LET b == out.builtUpTrend
            y == out.years
            n == Len(b)
            growthAlert ==
                \E k \in 1..Len(out.governanceAlerts) :
                    out.governanceAlerts[k].title
                        \in {"Abnormal Growth Spike", "Growth Acceleration"}
        IN /\ growthAlert =>
                 /\ n >= 4
                 /\ RGt(Rat(b[n] - b[n - 1], y[n] - y[n - 1]), RInt(0))
           /\ (n >= 4 /\ b[n - 1] < b[1] /\ b[n] < b[n - 1]) => ~growthAlert

====
